---- MODULE Spec2Model ----
(***************************************************************************)
(* Verification model of the actionbook browser control plane.             *)
(*                                                                         *)
(* Part 1: the extension bridge daemon (browser::extension_bridge), the    *)
(*         relay that pairs one browser extension with N CLI connections   *)
(*         and translates request ids.                                     *)
(* Part 2: the bridge lifecycle (browser::bridge_lifecycle) as used by     *)
(*         commands::browser::create_backend.                              *)
(*                                                                         *)
(* extension_bridge.rs and bridge_lifecycle.rs are not part of the source  *)
(* tree at hand: the daemon's handlers are modelled from spec.md 4.5 / 6   *)
(* and from the behaviour tests/extension_bridge_test.rs pins down; their  *)
(* callers (isolated_extension.rs, commands/extension.rs,                  *)
(* commands/browser.rs) are modelled from the code.                        *)
(***************************************************************************)
EXTENDS Integers, Sequences, FiniteSets, TLC

(***************************************************************************)
(* Bounds of the model                                                     *)
(***************************************************************************)
NumConns == 3       \* WebSocket connections the daemon accepts
MaxReq == 2         \* CLI request frames the daemon receives in a run
MaxEmit == 2        \* frames the extension emits in a run
NumProcs == 3       \* CLI processes calling ensure_bridge_running
MaxCalls == 3       \* calls made on one Camoufox session
MaxTime == 6        \* seconds the session clock runs
MaxNodes == 4       \* nodes of an accessibility tree
MaxUrlLen == 5      \* characters of a navigation input
MaxViewport == 2    \* width and height of the viewport, in pixels
MaxRetries == 34    \* largest CrawlerConfig::max_retries
MaxDom == 4         \* DOM nodes below the spine of a page
MaxSaves == 2       \* save_external / save_launched calls in a run
NumTasks == 2       \* rows of build_tasks with source_category 'any'
MaxBuilds == 2      \* TaskProcessor::process calls in a run

Conns == 1..NumConns
NoConn == 0
Methods == {"Page.navigate"}
NoToken == "none"
SessionToken == "T1"                      \* extension_bridge::generate_token()
WrongToken == "T0"                        \* any other token
Tokens == {SessionToken, WrongToken}
NoFile == "absent"
\* Payloads are opaque to the daemon.  The k-th frame the extension emits
\* carries a payload of its own (n = k), a result or an error in turn.
ExtBody(k) == [kind |-> IF k % 2 = 1 THEN "result" ELSE "error",
               message |-> "from extension", n |-> k]
NotConnected == [kind |-> "error", message |-> "extension not connected", n |-> 0]

VARIABLES
    \* ---- bridge daemon (BridgeState of spec.md 3) ----
    daemonMode,      \* "down" | "serve" | "isolated": how the daemon was started
    daemonToken,     \* the token serve_with_shutdown was given, NoToken if none
    tokenFile,       \* content of bridge.token on disk, NoFile if absent
    role,            \* client_id -> "None" | "Extension" | "Cli" | "Rejected"
    extension,       \* client_id of the registered extension, NoConn if none
    pending,         \* bridge_id -> [client, cli_id]
    next_bridge_id,  \* monotonic bridge_id counter
    sock,            \* client_id -> frames the daemon wrote to that socket
    extSock,         \* frames the extension wrote, not yet read by the daemon
    \* ---- history (not read by any handler) ----
    emitted,         \* every frame the extension emitted, in emission order
    reqLog,          \* every CLI request frame the daemon received
    \* ---- bridge lifecycle ----
    running,         \* the daemon child that holds the port, 0 if none
    spawned,         \* daemon children spawned so far: child -> spawning process
                     \*   (every process spawns at most one)
    childState,      \* child -> "starting" | "serving" | "exited"
    portFile,        \* child whose port file is on disk, 0 if absent
    pc,              \* process -> position in ensure_bridge_running
    auto_started,    \* process -> result of ensure_bridge_running, once pc = "done"
    \* ---- commands::browser::run, one CLI invocation per process ----
    command,         \* process -> "none" (not invoked yet) | "Close" | "Goto"
    mode,            \* process -> resolve_mode(cli, config)
    saw_running,     \* process -> what close_extension's is_bridge_running returned
    detach_sent,     \* process -> Extension.detachTab commands sent
    stop_calls,      \* processes that called bridge_lifecycle::stop_bridge, in order
    result,          \* process -> "none" | "ok" | "err": what run returned
    \* ---- isolated_extension::serve_isolated, one invocation ----
    iso_pc,          \* position in serve_isolated
    chrome,          \* the Chrome of the isolated profile and its PID:
                     \*   "absent" | "running" | "exited" | "recycled" (PID reused)
    child,           \* TRUE iff this invocation launched Chrome (child = Some)
    bridge_task,     \* "none" | "serving" | "stopping" | "ok" | "err" | "panic"
    reason,          \* ShutdownReason, "none" before the select resolves
    port_file,       \* bridge.port: NoFile | "stale" | "own"
    token_file,      \* bridge.token: NoFile | "stale" | "own"
    probed,          \* TRUE iff the last syscall was kill(pid, 0) == 0
    signals,         \* signals sent to chrome_pid, in order
    iso_result,      \* "none" | "ok" | "err": what serve_isolated returned
    \* ---- camofox::CamofoxSession behind BrowserDriver::Camofox ----
    active_tab_id,   \* NoTab or the id of the active tab
    snapshot_cache,  \* NoCache or the cached snapshot
    now,             \* the monotonic clock (Instant::now), in seconds
    page,            \* version of the page held by the Camoufox server
    calls,           \* session calls made so far
    last,            \* the last call: its arguments and what it returned
    \* ---- camofox::snapshot, one find_matching call ----
    fm_tree,         \* the accessibility tree, its nodes in pre-order
    fm_selector,     \* the selector
    fm_result,       \* Unset, or what find_matching returned (NoRef for None)
    \* ---- router::BrowserDriver::from_config, one call ----
    camofox,         \* cli.camofox
    profile_backend, \* profile.backend: NotSet (None) | "Cdp" | "Camofox"
    global_backend,  \* browser.backend as written in the config file, or NotSet
    cli_port,        \* cli.camofox_port: NotSet or a port
    profile_port,    \* profile.camofox_port: NotSet or a port
    chosen,          \* "none", or the backend from_config matched on
    driver,          \* what from_config returned: kind "none" (not yet) | "err" |
                     \*   "Cdp" | "Camofox", and the Camoufox port
    \* ---- commands::browser::run, the steps of one invocation ----
    cli,             \* the Cli: extension, browser_mode, profile, cdp
    config_mode,     \* config.browser.mode
    browser_command, \* the BrowserCommands variant and, for Connect, its endpoint
    cdp_server,      \* what answers GET /json/version on the port
    entry_pc,        \* position in run
    effects,         \* what run did outside the process, in order
    sessions,        \* profile name -> the session record on disk
    outcome,         \* "none", "ok", or the error run returned
    \* ---- commands::browser::normalize_navigation_url, one call ----
    raw,             \* the argument, a sequence of characters
    normalized,      \* NotCalled, or the Result: [ok, err, url]
    \* ---- commands::browser::inspect, one call ----
    point,           \* the coordinates [x, y]
    viewport,        \* the viewport of the page [w, h]
    backend_calls,   \* the BrowserBackend methods inspect called, in order
    printed,         \* what inspect printed under --json: "nothing" or the object
    inspected,       \* "none" | "ok" | "err": what inspect returned
    \* ---- knowledge-builder-any Crawler::fetch, one call ----
    config,          \* CrawlerConfig: max_retries, retry_base_delay, retry_max_delay
    attempt,         \* the loop variable of `for attempt in 0..=max_retries`
    last_error,      \* the error of the last failed attempt, NoError before any
    response,        \* what the last fetch_once returned, NoError before any
    request_count,   \* fetch_once calls made so far
    delay,           \* the delay last slept, NoDelay before any sleep
    sleeps,          \* sleeps made so far
    returned,        \* what fetch returned, kind "none" while it runs
    \* ---- browser::backend::SNAPSHOT_JS, one evaluation ----
    dom,             \* the nodes under document.body, in document pre-order
    snapshot,        \* NoSnapshot, or the object the script returned
    \* ---- session registry: the state directory and its users ----
    state_dir,       \* directory entries of sessions/: a set of [name, inode]
    files,           \* inode -> the fields written to that file so far
    next_inode,      \* the inode the next created file gets
    writer,          \* writer -> the save call it is in, WriterIdle if none
    reader,          \* reader -> the read it is in, ReaderIdle if none
    \* ---- history (not read by any operation) ----
    saved,           \* the file contents of every save call made so far
    \* ---- knowledge-builder-any worker: build_tasks and the TaskRunners ----
    tasks,           \* id -> the row of build_tasks, NoRow before it is inserted
    row_lock,        \* id -> the worker whose statement holds the row lock
    runner,          \* worker -> where its TaskRunner::run is, and with what
    shutdown,        \* worker -> the AtomicBool of its TaskRunner
    \* ---- history (not read by any operation) ----
    claim_count,     \* id -> how often claim_next_pending_task returned the row
    \* ---- isolated_extension::is_isolated_chrome_running, as serve_isolated uses it ----
    singleton_lock,  \* TRUE iff <profile_dir>/SingletonLock exists
    cdp_listener,    \* who listens on the isolated CDP port, "closed" if nobody
    alive_pc,        \* "idle" | "probe" | "done": position in the check
    seen,            \* what the check has seen: the lock, and who answered the probe
    version_probes,  \* GET /json/version requests the check has sent
    already_running, \* "none" | "true" | "false": what the check returned
    launch,          \* "none" | "reused" | "launched" | "failed": step 5
    \* ---- knowledge-builder-any TaskProcessor: the tables it writes ----
    sources,         \* number of rows of sources with the task's base_url
    source_versions, \* the rows of source_versions, in insertion order
    documents,       \* the rows of documents; the id is the position
    chunks,          \* the rows of chunks, in insertion order
    processor,       \* worker -> where its TaskProcessor::process is
    builds,          \* process calls started so far
    \* ---- history (not read by any operation) ----
    alone            \* TRUE iff every process call so far ran alone and returned Ok

bridgeVars == <<daemonMode, daemonToken, tokenFile, role, extension, pending,
                next_bridge_id, sock, extSock, emitted, reqLog>>
lifeVars == <<running, spawned, childState, portFile, pc, auto_started>>
runVars == <<command, mode, saw_running, detach_sent, stop_calls, result>>
isoVars == <<iso_pc, chrome, child, bridge_task, reason, port_file, token_file,
             probed, signals, iso_result>>
camVars == <<active_tab_id, snapshot_cache, now, page, calls, last>>
findVars == <<fm_tree, fm_selector, fm_result>>
routerVars == <<camofox, profile_backend, global_backend, cli_port, profile_port,
                chosen, driver>>
entryVars == <<cli, config_mode, browser_command, cdp_server, entry_pc, effects,
               sessions, outcome>>
urlVars == <<raw, normalized>>
inspectVars == <<point, viewport, backend_calls, printed, inspected>>
fetchVars == <<config, attempt, last_error, response, request_count, delay, sleeps,
               returned>>
snapVars == <<dom, snapshot>>
sessionVars == <<state_dir, files, next_inode, writer, reader, saved>>
workerVars == <<tasks, row_lock, runner, shutdown, claim_count>>
aliveVars == <<singleton_lock, cdp_listener, alive_pc, seen, version_probes,
               already_running, launch>>
procVars == <<sources, source_versions, documents, chunks, processor, builds,
              alone>>
vars == <<bridgeVars, lifeVars, runVars, isoVars, camVars, findVars,
        routerVars, entryVars, urlVars, inspectVars, fetchVars, snapVars,
        sessionVars, workerVars, aliveVars, procVars>>
nonBridgeVars == <<lifeVars, runVars, isoVars, camVars, findVars, routerVars,
        entryVars, urlVars, inspectVars, fetchVars, snapVars, sessionVars,
        workerVars, aliveVars, procVars>>
nonLifeVars == <<bridgeVars, runVars, isoVars, camVars, findVars, routerVars,
        entryVars, urlVars, inspectVars, fetchVars, snapVars, sessionVars,
        workerVars, aliveVars, procVars>>
nonRunVars == <<bridgeVars, isoVars, camVars, findVars, routerVars,
        entryVars, urlVars, inspectVars, fetchVars, snapVars, sessionVars,
        workerVars, aliveVars, procVars>>
nonIsoVars == <<bridgeVars, lifeVars, runVars, camVars, findVars, routerVars,
        entryVars, urlVars, inspectVars, fetchVars, snapVars, sessionVars,
        workerVars, aliveVars, procVars>>
nonCamVars == <<bridgeVars, lifeVars, runVars, isoVars, findVars, routerVars,
        entryVars, urlVars, inspectVars, fetchVars, snapVars, sessionVars,
        workerVars, aliveVars, procVars>>
nonFindVars == <<bridgeVars, lifeVars, runVars, isoVars, camVars, routerVars,
        entryVars, urlVars, inspectVars, fetchVars, snapVars, sessionVars,
        workerVars, aliveVars, procVars>>
nonRouterVars == <<bridgeVars, lifeVars, runVars, isoVars, camVars, findVars,
        entryVars, urlVars, inspectVars, fetchVars, snapVars, sessionVars,
        workerVars, aliveVars, procVars>>
nonEntryVars == <<bridgeVars, lifeVars, runVars, isoVars, camVars, findVars,
        routerVars, urlVars, inspectVars, fetchVars, snapVars, sessionVars,
        workerVars, aliveVars, procVars>>
nonUrlVars == <<bridgeVars, lifeVars, runVars, isoVars, camVars, findVars,
        routerVars, entryVars, inspectVars, fetchVars, snapVars, sessionVars,
        workerVars, aliveVars, procVars>>
nonInspectVars == <<bridgeVars, lifeVars, runVars, isoVars, camVars,
        findVars, routerVars, entryVars, urlVars, fetchVars, snapVars,
        sessionVars, workerVars, aliveVars, procVars>>
nonFetchVars == <<bridgeVars, lifeVars, runVars, isoVars, camVars, findVars,
        routerVars, entryVars, urlVars, inspectVars, snapVars, sessionVars,
        workerVars, aliveVars, procVars>>
nonSnapVars == <<bridgeVars, lifeVars, runVars, isoVars, camVars, findVars,
        routerVars, entryVars, urlVars, inspectVars, fetchVars, sessionVars,
        workerVars, aliveVars, procVars>>
nonSessionVars == <<bridgeVars, lifeVars, runVars, isoVars, camVars,
        findVars, routerVars, entryVars, urlVars, inspectVars, fetchVars,
        snapVars, workerVars, aliveVars, procVars>>
nonWorkerVars == <<bridgeVars, lifeVars, runVars, isoVars, camVars, findVars,
        routerVars, entryVars, urlVars, inspectVars, fetchVars, snapVars,
        sessionVars, aliveVars, procVars>>
nonAliveVars == <<bridgeVars, lifeVars, runVars, isoVars, camVars, findVars,
        routerVars, entryVars, urlVars, inspectVars, fetchVars, snapVars,
        sessionVars, workerVars, procVars>>
nonProcVars == <<bridgeVars, lifeVars, runVars, isoVars, camVars, findVars,
        routerVars, entryVars, urlVars, inspectVars, fetchVars, snapVars,
        sessionVars, workerVars, aliveVars>>

Procs == 1..NumProcs

BridgeIdle ==
    /\ daemonMode = "down"
    /\ daemonToken = NoToken
    /\ tokenFile = NoFile
    /\ role = [c \in Conns |-> "None"]
    /\ extension = NoConn
    /\ pending = <<>>
    /\ next_bridge_id = 1
    /\ sock = [c \in Conns |-> <<>>]
    /\ extSock = <<>>
    /\ emitted = <<>>
    /\ reqLog = <<>>

LifeIdle ==
    /\ running = 0
    /\ spawned = <<>>
    /\ childState = <<>>
    /\ portFile = 0
    /\ pc = [p \in Procs |-> "idle"]
    /\ auto_started = [p \in Procs |-> FALSE]

RunIdle ==
    /\ command = [p \in Procs |-> "none"]
    /\ mode = [p \in Procs |-> "Isolated"]
    /\ saw_running = [p \in Procs |-> FALSE]
    /\ detach_sent = [p \in Procs |-> 0]
    /\ stop_calls = <<>>
    /\ result = [p \in Procs |-> "none"]

IsoIdle ==
    /\ iso_pc = "start"
    /\ chrome = "absent"
    /\ child = FALSE
    /\ bridge_task = "none"
    /\ reason = "none"
    /\ port_file = NoFile
    /\ token_file = NoFile
    /\ probed = FALSE
    /\ signals = <<>>
    /\ iso_result = "none"

NoTab == "none"
NoCache == [some |-> FALSE, version |-> 0, timestamp |-> 0, has |-> FALSE]
NoCall == [op |-> "none", sel |-> <<>>, res |-> "none", err |-> "none", val |-> <<>>,
           from |-> -1, consulted |-> FALSE, age |-> -1, http |-> 0,
           refreshed |-> FALSE, performed |-> FALSE, cache_changed |-> FALSE,
           via |-> "none"]

\* CamofoxSession::connect: no active tab, no cached snapshot.
CamIdle ==
    /\ active_tab_id = NoTab
    /\ snapshot_cache = NoCache
    /\ now = 0
    /\ page = 0
    /\ calls = 0
    /\ last = NoCall

NoRef == 0
Unset == -1

\* No find_matching call in progress: a tree of one node without a ref.
FindIdle ==
    /\ fm_tree = <<[role |-> "document", has_ref |-> FALSE, depth |-> 0]>>
    /\ fm_selector = "button"
    /\ fm_result = Unset

NotSet == "not set"
NoDriver == [kind |-> "none", port |-> NotSet]

\* No from_config call in progress: nothing set anywhere.
RouterIdle ==
    /\ camofox = FALSE
    /\ profile_backend = NotSet
    /\ global_backend = NotSet
    /\ cli_port = NotSet
    /\ profile_port = NotSet
    /\ chosen = "none"
    /\ driver = NoDriver

ProfileNames == {"actionbook", "work"}
NoSession == "no record"

\* No run in progress: a bare `status` in isolated mode.
EntryIdle ==
    /\ cli = [extension |-> FALSE, browser_mode |-> NotSet, profile |-> NotSet,
              cdp |-> NotSet]
    /\ config_mode = "Isolated"
    /\ browser_command = [name |-> "Status", endpoint |-> NotSet]
    /\ cdp_server = "none"
    /\ entry_pc = "start"
    /\ effects = <<>>
    /\ sessions = [n \in ProfileNames |-> NoSession]
    /\ outcome = "none"

NotCalled == [ok |-> FALSE, err |-> "not called", url |-> <<>>]

\* No normalize_navigation_url call in progress.
UrlIdle ==
    /\ raw = <<>>
    /\ normalized = NotCalled

\* No inspect call in progress.
InspectIdle ==
    /\ point = [x |-> 0, y |-> 0]
    /\ viewport = [w |-> 1, h |-> 1]
    /\ backend_calls = <<>>
    /\ printed = "nothing"
    /\ inspected = "none"

NoError == [kind |-> "none", status |-> 0]
NoDelay == <<>>
Running == [kind |-> "none", status |-> 0, attempts |-> 0, last_error |-> NoError]

\* No fetch in progress, on a crawler with no retries configured.
FetchIdle ==
    /\ config = [max_retries |-> 0, retry_base_delay |-> <<1>>,
                 retry_max_delay |-> <<1>>]
    /\ attempt = 0
    /\ last_error = NoError
    /\ response = NoError
    /\ request_count = 0
    /\ delay = NoDelay
    /\ sleeps = 0
    /\ returned = Running

NoSnapshot == [done |-> FALSE, tree |-> <<>>, refCount |-> 0]

\* The script has not run: an empty body.
SnapIdle ==
    /\ dom = <<[kind |-> "generic", depth |-> 0]>>
    /\ snapshot = NoSnapshot

Writers == {"w1", "w2"}
Readers == {"r1"}
Inodes == 1..MaxSaves
NoInode == 0
NoPath == [profile |-> NotSet, tmp |-> NotSet]
WriterIdle == [pc |-> "idle", path |-> NoPath, inode |-> NoInode, content |-> <<>>]
ReaderIdle == [pc |-> "idle", profile |-> NotSet, inode |-> NoInode,
               found |-> FALSE, buf |-> <<>>]

\* An empty state directory, nobody saving or reading.
SessionIdle ==
    /\ state_dir = {}
    /\ files = [i \in Inodes |-> <<>>]
    /\ next_inode = 1
    /\ writer = [w \in Writers |-> WriterIdle]
    /\ reader = [r \in Readers |-> ReaderIdle]
    /\ saved = {}

Workers == {"w1", "w2"}
NoWorker == "none"
TaskIds == 1..NumTasks
NoTask == 0
NoSource == 0
NoRow == [stage |-> "absent", stage_status |-> "absent", source_id |-> NoSource,
          last_error |-> NotSet]
RunnerIdle == [pc |-> "loop", task |-> NoTask, result |-> "none", returned |-> "none"]

\* An empty build_tasks table, every runner at the top of its loop.
WorkerIdle ==
    /\ tasks = [t \in TaskIds |-> NoRow]
    /\ row_lock = [t \in TaskIds |-> NoWorker]
    /\ runner = [w \in Workers |-> RunnerIdle]
    /\ shutdown = [w \in Workers |-> FALSE]
    /\ claim_count = [t \in TaskIds |-> 0]

\* Ids of rows not there: serial ids start at 1.
NoDoc == 0
NoVersion == 0
NoContent == <<>>
ProcessorIdle ==
    [pc |-> "idle", action_md |-> NoContent, overview_md |-> NoContent,
     source_id |-> NoSource, next_version |-> NoVersion,
     version_id |-> NoVersion, doc |-> "none", existing |-> NoDoc,
     action_doc_id |-> NoDoc, overview_doc_id |-> NoDoc, returned |-> "none"]
ProcIdle ==
    /\ sources = 0
    /\ source_versions = <<>>
    /\ documents = <<>>
    /\ chunks = <<>>
    /\ processor = [w \in Workers |-> ProcessorIdle]
    /\ builds = 0
    /\ alone = TRUE

NotSeen == [lock |-> FALSE, answered |-> "not probed"]

\* No isolated Chrome, nothing on the port, serve_isolated not yet at step 4.
AliveIdle ==
    /\ singleton_lock = FALSE
    /\ cdp_listener = "closed"
    /\ alive_pc = "idle"
    /\ seen = NotSeen
    /\ version_probes = 0
    /\ already_running = "none"
    /\ launch = "none"

NonBridgeIdle == LifeIdle /\ RunIdle /\ IsoIdle /\ CamIdle /\ FindIdle /\
        RouterIdle /\ EntryIdle /\ UrlIdle /\ InspectIdle /\ FetchIdle /\
        SnapIdle /\ SessionIdle /\ WorkerIdle /\ AliveIdle /\ ProcIdle
NonLifeIdle == BridgeIdle /\ RunIdle /\ IsoIdle /\ CamIdle /\ FindIdle /\
        RouterIdle /\ EntryIdle /\ UrlIdle /\ InspectIdle /\ FetchIdle /\
        SnapIdle /\ SessionIdle /\ WorkerIdle /\ AliveIdle /\ ProcIdle
NonRunIdle == BridgeIdle /\ IsoIdle /\ CamIdle /\ FindIdle /\ RouterIdle /\
        EntryIdle /\ UrlIdle /\ InspectIdle /\ FetchIdle /\ SnapIdle /\
        SessionIdle /\ WorkerIdle /\ AliveIdle /\ ProcIdle
NonIsoIdle == BridgeIdle /\ LifeIdle /\ RunIdle /\ CamIdle /\ FindIdle /\
        RouterIdle /\ EntryIdle /\ UrlIdle /\ InspectIdle /\ FetchIdle /\
        SnapIdle /\ SessionIdle /\ WorkerIdle /\ AliveIdle /\ ProcIdle
NonCamIdle == BridgeIdle /\ LifeIdle /\ RunIdle /\ IsoIdle /\ FindIdle /\
        RouterIdle /\ EntryIdle /\ UrlIdle /\ InspectIdle /\ FetchIdle /\
        SnapIdle /\ SessionIdle /\ WorkerIdle /\ AliveIdle /\ ProcIdle
NonFindIdle == BridgeIdle /\ LifeIdle /\ RunIdle /\ IsoIdle /\ CamIdle /\
        RouterIdle /\ EntryIdle /\ UrlIdle /\ InspectIdle /\ FetchIdle /\
        SnapIdle /\ SessionIdle /\ WorkerIdle /\ AliveIdle /\ ProcIdle
NonRouterIdle == BridgeIdle /\ LifeIdle /\ RunIdle /\ IsoIdle /\ CamIdle /\
        FindIdle /\ EntryIdle /\ UrlIdle /\ InspectIdle /\ FetchIdle /\
        SnapIdle /\ SessionIdle /\ WorkerIdle /\ AliveIdle /\ ProcIdle
NonEntryIdle == BridgeIdle /\ LifeIdle /\ RunIdle /\ IsoIdle /\ CamIdle /\
        FindIdle /\ RouterIdle /\ UrlIdle /\ InspectIdle /\ FetchIdle /\
        SnapIdle /\ SessionIdle /\ WorkerIdle /\ AliveIdle /\ ProcIdle
NonUrlIdle == BridgeIdle /\ LifeIdle /\ RunIdle /\ IsoIdle /\ CamIdle /\
        FindIdle /\ RouterIdle /\ EntryIdle /\ InspectIdle /\ FetchIdle /\
        SnapIdle /\ SessionIdle /\ WorkerIdle /\ AliveIdle /\ ProcIdle
NonInspectIdle == BridgeIdle /\ LifeIdle /\ RunIdle /\ IsoIdle /\ CamIdle /\
        FindIdle /\ RouterIdle /\ EntryIdle /\ UrlIdle /\ FetchIdle /\
        SnapIdle /\ SessionIdle /\ WorkerIdle /\ AliveIdle /\ ProcIdle
NonFetchIdle == BridgeIdle /\ LifeIdle /\ RunIdle /\ IsoIdle /\ CamIdle /\
        FindIdle /\ RouterIdle /\ EntryIdle /\ UrlIdle /\ InspectIdle /\
        SnapIdle /\ SessionIdle /\ WorkerIdle /\ AliveIdle /\ ProcIdle
NonSnapIdle == BridgeIdle /\ LifeIdle /\ RunIdle /\ IsoIdle /\ CamIdle /\
        FindIdle /\ RouterIdle /\ EntryIdle /\ UrlIdle /\ InspectIdle /\
        FetchIdle /\ SessionIdle /\ WorkerIdle /\ AliveIdle /\ ProcIdle
NonSessionIdle == BridgeIdle /\ LifeIdle /\ RunIdle /\ IsoIdle /\ CamIdle /\
        FindIdle /\ RouterIdle /\ EntryIdle /\ UrlIdle /\ InspectIdle /\
        FetchIdle /\ SnapIdle /\ WorkerIdle /\ AliveIdle /\ ProcIdle
NonWorkerIdle == BridgeIdle /\ LifeIdle /\ RunIdle /\ IsoIdle /\ CamIdle /\
        FindIdle /\ RouterIdle /\ EntryIdle /\ UrlIdle /\ InspectIdle /\
        FetchIdle /\ SnapIdle /\ SessionIdle /\ AliveIdle /\ ProcIdle
NonAliveIdle == BridgeIdle /\ LifeIdle /\ RunIdle /\ IsoIdle /\ CamIdle /\
        FindIdle /\ RouterIdle /\ EntryIdle /\ UrlIdle /\ InspectIdle /\
        FetchIdle /\ SnapIdle /\ SessionIdle /\ WorkerIdle /\ ProcIdle
NonProcIdle == BridgeIdle /\ LifeIdle /\ RunIdle /\ IsoIdle /\ CamIdle /\
        FindIdle /\ RouterIdle /\ EntryIdle /\ UrlIdle /\ InspectIdle /\
        FetchIdle /\ SnapIdle /\ SessionIdle /\ WorkerIdle /\ AliveIdle

(***************************************************************************)
(* Part 1. The bridge daemon                                               *)
(***************************************************************************)

\* State right after the process starts: no daemon yet, no state files.
BridgeInit ==
    /\ daemonMode = "down"
    /\ daemonToken = NoToken
    /\ tokenFile = NoFile
    /\ role = [c \in Conns |-> "None"]
    /\ extension = NoConn
    /\ pending = <<>>
    /\ next_bridge_id = 1
    /\ sock = [c \in Conns |-> <<>>]
    /\ extSock = <<>>
    /\ emitted = <<>>
    /\ reqLog = <<>>
    /\ NonBridgeIdle

\* commands/extension.rs serve(): extension_bridge::serve(port), no token.
StartServe ==
    /\ daemonMode = "down"
    /\ daemonMode' = "serve"
    /\ daemonToken' = NoToken
    /\ UNCHANGED <<tokenFile, role, extension, pending, next_bridge_id, sock,
                   extSock, emitted, reqLog>>
    /\ UNCHANGED nonBridgeVars

\* Variant: bridge.token is written but the bridge is served without it.
StartIsolated_ServeWithoutToken(writeOk) ==
    /\ daemonMode = "down"
    /\ daemonMode' = "isolated"
    /\ daemonToken' = NoToken
    /\ tokenFile' = IF writeOk THEN SessionToken ELSE NoFile
    /\ UNCHANGED <<role, extension, pending, next_bridge_id, sock,
                   extSock, emitted, reqLog>>
    /\ UNCHANGED nonBridgeVars

\* serve_isolated steps 6, 7, 13: delete the stale files, generate a token,
\* write bridge.token (a failed write is only reported), then run
\* serve_with_shutdown(bridge_port, token, ..).
StartIsolated(writeOk) ==
    /\ daemonMode = "down"
    /\ daemonMode' = "isolated"
    /\ daemonToken' = SessionToken
    /\ tokenFile' = IF writeOk THEN SessionToken ELSE NoFile
    /\ UNCHANGED <<role, extension, pending, next_bridge_id, sock,
                   extSock, emitted, reqLog>>
    /\ UNCHANGED nonBridgeVars

\* ---- helpers of the router ----

\* Handshake token check: validation is enabled iff the daemon holds a token.
TokenOk(tok) == daemonToken = NoToken \/ tok = daemonToken

\* Variant: the last {type:"extension"} wins.
ExtensionSlotFree_Always == TRUE
\* At most one extension may be registered.
ExtensionSlotFree == extension = NoConn

\* Variant: the id is derived from the size of pending, so it is reused.
AllocBridgeId_FromPendingSize == Cardinality(DOMAIN pending) + 1
\* A fresh bridge_id: the current value of the monotonic counter.
AllocBridgeId == next_bridge_id

\* The frame forwarded to the extension: {id: bridge_id, method, params}.
ForwardFrame(b, m) == [t |-> "req", id |-> b, method |-> m]

\* Variant: the error reply does not carry the request's id.
NotConnectedFrame_NoId(N) == [t |-> "resp", id |-> 0, body |-> NotConnected]
\* The daemon-synthesised reply when no extension is attached.
NotConnectedFrame(N) == [t |-> "resp", id |-> N, body |-> NotConnected]

\* Variant: the response keeps the bridge id.
RewriteResponse_KeepBridgeId(p, f) == [t |-> "resp", id |-> f.id, body |-> f.body]
\* The response forwarded to a CLI: the id rewritten to the origin's cli_id,
\* result / error taken from the extension's frame.
RewriteResponse(p, f) == [t |-> "resp", id |-> p.cli_id, body |-> f.body]

\* Variant: the target is looked up by cli id, the first client with a
\* pending request of that id.
ResponseTarget_ByCliId(p) ==
    CHOOSE c \in Conns :
        /\ \E b \in DOMAIN pending : pending[b].client = c /\ pending[b].cli_id = p.cli_id
        /\ \A d \in 1..(c - 1) :
              ~ \E b \in DOMAIN pending : pending[b].client = d /\ pending[b].cli_id = p.cli_id
\* The socket a response is written to: the originating client's.
ResponseTarget(p) == p.client

\* Variant: the entry is left in pending.
ErasePending_Keep(b) == pending
\* pending with the entry of bridge_id b erased / recorded.
ErasePending(b) == [k \in DOMAIN pending \ {b} |-> pending[k]]
RecordPending(b, c, N) ==
    [k \in DOMAIN pending \cup {b} |-> IF k = b THEN [client |-> c, cli_id |-> N]
                                               ELSE pending[k]]

\* Variant: the router takes the newest frame first.
NextExtFrameIndex_Last == Len(extSock)
\* The router reads the extension's socket in order.
NextExtFrameIndex == 1

RemoveAt(s, i) == [k \in 1..(Len(s) - 1) |-> IF k < i THEN s[k] ELSE s[k + 1]]

\* Variant: a frame with an unknown id is passed on to every CLI.
UnknownIdEffect_Broadcast(f) ==
    [c \in Conns |-> IF role[c] = "Cli"
                     THEN Append(sock[c], [t |-> "resp", id |-> f.id, body |-> f.body])
                     ELSE sock[c]]
\* What an extension frame with an id unknown to pending does to the sockets:
\* nothing (dropped with a warning).
UnknownIdEffect(f) == sock

\* CLI -> extension routing of a request {id: N, method: m} from client c.
RouteRequest(c, N, m) ==
    IF extension = NoConn
    THEN /\ sock' = [sock EXCEPT ![c] = Append(@, NotConnectedFrame(N))]
         /\ reqLog' = Append(reqLog, [client |-> c, cli_id |-> N, method |-> m,
                                      bridge_id |-> 0])
         /\ UNCHANGED <<pending, next_bridge_id>>
    ELSE LET b == AllocBridgeId IN
         /\ next_bridge_id' = next_bridge_id + 1
         /\ pending' = RecordPending(b, c, N)
         /\ sock' = [sock EXCEPT ![extension] = Append(@, ForwardFrame(b, m))]
         /\ reqLog' = Append(reqLog, [client |-> c, cli_id |-> N, method |-> m,
                                      bridge_id |-> b])

\* ---- handlers, one per received frame ----

\* A CLI numbers its requests with a private id sequence 1, 2, ..: the id of
\* the next request of client c.
NextCliId(c) == Cardinality({i \in 1..Len(reqLog) : reqLog[i].client = c}) + 1

\* client_ids are handed out in the order the connections are accepted.
NextClient(c) == role[c] = "None" /\ \A d \in 1..(c - 1) : role[d] # "None"

\* First frame {type:"extension"} of connection c.
ExtensionHello(c) ==
    /\ daemonMode # "down"
    /\ NextClient(c)
    /\ IF ExtensionSlotFree
       THEN /\ role' = [role EXCEPT ![c] = "Extension"]
            /\ extension' = c
       ELSE /\ role' = [role EXCEPT ![c] = "Rejected"]
            /\ UNCHANGED extension
    /\ UNCHANGED <<daemonMode, daemonToken, tokenFile, pending, next_bridge_id,
                   sock, extSock, emitted, reqLog>>
    /\ UNCHANGED nonBridgeVars

\* First frame {type:"cli", token?} of connection c; as in the tests it may
\* already be a request {type:"cli", id, method, params}.
CliHello(c, tok, hasReq, N, m) ==
    /\ daemonMode # "down"
    /\ NextClient(c)
    /\ IF TokenOk(tok)
       THEN /\ role' = [role EXCEPT ![c] = "Cli"]
            /\ IF hasReq /\ Len(reqLog) < MaxReq
               THEN RouteRequest(c, N, m)
               ELSE UNCHANGED <<pending, next_bridge_id, sock, reqLog>>
       ELSE /\ role' = [role EXCEPT ![c] = "Rejected"]
            /\ UNCHANGED <<pending, next_bridge_id, sock, reqLog>>
    /\ UNCHANGED <<daemonMode, daemonToken, tokenFile, extension, extSock, emitted>>
    /\ UNCHANGED nonBridgeVars

\* A later request frame {id, method, params} of a CLI connection.
CliRequest(c, N, m) ==
    /\ daemonMode # "down"
    /\ role[c] = "Cli"
    /\ Len(reqLog) < MaxReq
    /\ RouteRequest(c, N, m)
    /\ UNCHANGED <<daemonMode, daemonToken, tokenFile, role, extension, extSock,
                   emitted>>
    /\ UNCHANGED nonBridgeVars

\* The extension writes a frame {id: b, result | error}.  It may answer what
\* it was sent, answer twice, or use an id the daemon never allocated.
ExtensionEmit(b) ==
    /\ extension # NoConn
    /\ Len(emitted) < MaxEmit
    /\ LET f == [id |-> b, body |-> ExtBody(Len(emitted) + 1)]
       IN /\ extSock' = Append(extSock, f)
          /\ emitted' = Append(emitted, [id |-> b, body |-> f.body,
                                          forwarded |-> b < next_bridge_id])
    /\ UNCHANGED <<daemonMode, daemonToken, tokenFile, role, extension, pending,
                   next_bridge_id, sock, reqLog>>
    /\ UNCHANGED nonBridgeVars

\* Extension -> CLI routing of the next frame read from the extension.
ExtensionResponse ==
    /\ daemonMode # "down"
    /\ extSock # <<>>
    /\ LET i == NextExtFrameIndex
           f == extSock[i]
       IN /\ extSock' = RemoveAt(extSock, i)
          /\ IF f.id \in DOMAIN pending
             THEN LET p == pending[f.id] IN
                  /\ sock' = [sock EXCEPT ![ResponseTarget(p)] =
                                              Append(@, RewriteResponse(p, f))]
                  /\ pending' = ErasePending(f.id)
             ELSE /\ sock' = UnknownIdEffect(f)
                  /\ UNCHANGED pending
    /\ UNCHANGED <<daemonMode, daemonToken, tokenFile, role, extension,
                   next_bridge_id, emitted, reqLog>>
    /\ UNCHANGED nonBridgeVars

BridgeNext ==
    \/ StartServe
    \/ \E w \in BOOLEAN : StartIsolated(w)
    \/ \E c \in Conns : ExtensionHello(c)
    \/ \E c \in Conns, tok \in Tokens \cup {NoToken}, h \in BOOLEAN, m \in Methods :
          CliHello(c, tok, h, NextCliId(c), m)
    \/ \E c \in Conns, m \in Methods : CliRequest(c, NextCliId(c), m)
    \/ \E b \in 1..next_bridge_id : ExtensionEmit(b)
    \/ ExtensionResponse

Spec == BridgeInit /\ [][BridgeNext]_vars

(***************************************************************************)
(* Claims about the bridge daemon                                          *)
(***************************************************************************)

\* Response frames on client c's socket that stem from an extension frame.
ExtFrames(c) ==
    {j \in DOMAIN sock[c] : sock[c][j].t = "resp" /\ sock[c][j].body.n > 0}

\* The extension's k-th frame has been read by the router.
Handled(k) ==
    k \in DOMAIN emitted /\ \A j \in DOMAIN extSock : extSock[j].body.n # k

\* Requests that were forwarded to the extension.
Forwards == {i \in DOMAIN reqLog : reqLog[i].bridge_id > 0}

\* The bridge_id of the extension frame a delivered response stems from.
Via(c, j) == emitted[sock[c][j].body.n].id

\* The deliveries, anywhere, that stem from an extension frame with id b.
Deliveries(b) ==
    UNION {{<<c, j>> : j \in {x \in ExtFrames(c) : Via(c, x) = b}} : c \in Conns}

\* C1: bridge round trip.  For every forwarded request (client c, cli id N,
\* bridge id b): at most one response stemming from an extension frame with
\* id b is ever delivered; it is delivered to c, carries id N (not b) and the
\* payload of that extension frame; and once the router has read an answer
\* the extension gave to the forwarded frame, that one response is there.
C1_RoundTrip ==
    \A i \in Forwards :
        LET r == reqLog[i]
            D == Deliveries(r.bridge_id)
        IN /\ Cardinality(D) <= 1
           /\ \A d \in D :
                 /\ d[1] = r.client
                 /\ sock[d[1]][d[2]].id = r.cli_id
                 /\ sock[d[1]][d[2]].body = emitted[sock[d[1]][d[2]].body.n].body
           /\ (\E k \in DOMAIN emitted :
                   emitted[k].id = r.bridge_id /\ emitted[k].forwarded /\ Handled(k))
              => D # {}

\* A CLI holds the extension's answer, under its own id, which differs from
\* the bridge id the request travelled under.
C1_Witness ==
    \E i \in Forwards :
        /\ reqLog[i].cli_id # reqLog[i].bridge_id
        /\ \E d \in Deliveries(reqLog[i].bridge_id) :
              d[1] = reqLog[i].client /\ sock[d[1]][d[2]].id = reqLog[i].cli_id

\* C2: no crosstalk.  Every extension response found on a connection's
\* socket answers a request that this very connection sent: it stems from
\* the extension frame whose id is the bridge id of one of its own requests
\* and carries that request's cli id.
C2_NoCrosstalk ==
    \A c \in Conns : \A j \in ExtFrames(c) :
        \E i \in Forwards :
            /\ reqLog[i].client = c
            /\ reqLog[i].bridge_id = Via(c, j)
            /\ reqLog[i].cli_id = sock[c][j].id

\* Two connections sent id 1, both were in flight, the extension answered
\* the second first, and each holds the answer to its own request.
C2_Witness ==
    /\ Len(reqLog) >= 2 /\ Len(emitted) >= 2
    /\ reqLog[1].client # reqLog[2].client
    /\ reqLog[1].cli_id = 1 /\ reqLog[2].cli_id = 1
    /\ reqLog[1].bridge_id > 0 /\ reqLog[2].bridge_id > reqLog[1].bridge_id
    /\ emitted[1].id = reqLog[2].bridge_id /\ emitted[1].forwarded
    /\ emitted[2].id = reqLog[1].bridge_id
    /\ \E j \in ExtFrames(reqLog[1].client) : sock[reqLog[1].client][j].body.n = 2
    /\ \E j \in ExtFrames(reqLog[2].client) : sock[reqLog[2].client][j].body.n = 1

\* C3: whenever an extension response is written to a CLI socket, pending
\* held bridge_id -> (that client, the id the response carries) before the
\* step, and the entry is gone after it.
C3_PendingErased ==
    [][\A c \in Conns :
          (/\ Len(sock'[c]) = Len(sock[c]) + 1
           /\ sock'[c][Len(sock'[c])].t = "resp"
           /\ sock'[c][Len(sock'[c])].body.n > 0)
          => LET f == sock'[c][Len(sock'[c])]
                 b == emitted[f.body.n].id
             IN /\ b \in DOMAIN pending
                /\ pending[b] = [client |-> c, cli_id |-> f.id]
                /\ b \notin DOMAIN pending']_vars

\* A response was forwarded, its entry is erased, and the extension then
\* answered the same bridge id again.
C3_Witness ==
    \E c \in Conns : \E j \in ExtFrames(c) :
        /\ Via(c, j) \notin DOMAIN pending
        /\ \E k \in DOMAIN emitted :
              k > sock[c][j].body.n /\ emitted[k].id = Via(c, j) /\ Handled(k)

\* The request frames written to client c's socket, in order.
ReqIds(c) ==
    LET F == SelectSeq(sock[c], LAMBDA f : f.t = "req")
    IN [k \in DOMAIN F |-> F[k].id]

\* C4: the bridge ids of the forwarded requests are strictly increasing in
\* forwarding order, whoever sent them, and each lies below the counter.
C4_FreshBridgeIds ==
    /\ \A i, j \in Forwards : i < j => reqLog[i].bridge_id < reqLog[j].bridge_id
    /\ \A i \in Forwards : reqLog[i].bridge_id < next_bridge_id
    /\ \A c \in Conns : \A k, l \in DOMAIN ReqIds(c) : k < l => ReqIds(c)[k] < ReqIds(c)[l]

\* Two requests were forwarded after the first one's entry had been erased.
C4_Witness ==
    /\ extension # NoConn
    /\ Len(ReqIds(extension)) >= 2
    /\ pending = <<>>
    /\ \E i, j \in Forwards : i # j /\ reqLog[i].cli_id = reqLog[j].cli_id

\* C5: a request that arrives while no extension is registered is answered
\* on the sender's socket with {id: cli_id, error: "extension not
\* connected"}; nothing else is written, pending and the counter stay.
C5_NotConnected ==
    [][(Len(reqLog') = Len(reqLog) + 1 /\ extension = NoConn)
       => LET r == reqLog'[Len(reqLog')]
          IN /\ r.bridge_id = 0
             /\ sock' = [sock EXCEPT ![r.client] =
                            Append(@, [t |-> "resp", id |-> r.cli_id,
                                       body |-> NotConnected])]
             /\ pending' = pending
             /\ next_bridge_id' = next_bridge_id]_vars

\* A CLI holds the daemon-synthesised error.
C5_Witness ==
    \E i \in DOMAIN reqLog :
        /\ reqLog[i].bridge_id = 0
        /\ \E j \in DOMAIN sock[reqLog[i].client] :
              sock[reqLog[i].client][j] =
                  [t |-> "resp", id |-> reqLog[i].cli_id, body |-> NotConnected]

\* C6: at most one client has role Extension; it is the registered one, and
\* forwarded requests are written to its socket only.
C6_OneExtension ==
    /\ Cardinality({c \in Conns : role[c] = "Extension"}) <= 1
    /\ \A c \in Conns : role[c] = "Extension" <=> (c = extension)
    /\ \A c \in Conns : c # extension => Len(ReqIds(c)) = 0
    /\ extension # NoConn => Len(ReqIds(extension)) = Cardinality(Forwards)

\* A second {type:"extension"} was rejected (no token is in force, so the
\* rejection is the duplicate's) and a CLI that connected after it had its
\* request forwarded to the registered extension.
C6_Witness ==
    /\ daemonToken = NoToken
    /\ \E c \in Conns :
          /\ role[c] = "Rejected"
          /\ \E i \in Forwards : reqLog[i].client > c
    /\ extension # NoConn /\ Len(ReqIds(extension)) >= 1

C8_UnknownDropped ==
    [][(/\ extSock # <<>>
        /\ Len(extSock') = Len(extSock) - 1
        /\ Head(extSock).id \notin DOMAIN pending)
       => (sock' = sock /\ pending' = pending /\ next_bridge_id' = next_bridge_id)]_vars

\* The router has read and dropped a second answer to an id that was
\* already answered: both frames are read, one response was delivered.
C8_Witness ==
    \E k, l \in DOMAIN emitted :
        /\ k < l /\ emitted[k].id = emitted[l].id /\ Handled(l)
        /\ emitted[k].forwarded
        /\ emitted[k].id \notin DOMAIN pending
        /\ Cardinality(Deliveries(emitted[k].id)) = 1

\* The router has read and dropped a frame whose id was never allocated.
NeverAllocatedDropped ==
    \E k \in DOMAIN emitted :
        ~ emitted[k].forwarded /\ emitted[k].id >= next_bridge_id /\ Handled(k)

LifeInit == LifeIdle /\ NonLifeIdle

\* is_running(port): a handshake with the daemon on the port succeeds.
IsRunning == running # 0

\* ensure_bridge_running, the probe: already running => Ok(false).
EnsureCheck(p) ==
    /\ pc[p] = "idle"
    /\ IF IsRunning
       THEN /\ pc' = [pc EXCEPT ![p] = "done"]
            /\ auto_started' = [auto_started EXCEPT ![p] = FALSE]
       ELSE /\ pc' = [pc EXCEPT ![p] = "spawn"]
            /\ UNCHANGED auto_started
    /\ UNCHANGED <<running, spawned, childState, portFile>>
    /\ UNCHANGED nonLifeVars

\* ensure_bridge_running, the spawn of the detached daemon child.
EnsureSpawn(p) ==
    /\ pc[p] = "spawn"
    /\ spawned' = Append(spawned, p)
    /\ childState' = Append(childState, "starting")
    /\ pc' = [pc EXCEPT ![p] = "wait"]
    /\ UNCHANGED <<running, portFile, auto_started>>
    /\ UNCHANGED nonLifeVars

\* ensure_bridge_running, the wait: is_running flipped true => Ok(true),
\* which create_backend returns as bridge_auto_started.
EnsureWait(p) ==
    /\ pc[p] = "wait"
    /\ IsRunning
    /\ auto_started' = [auto_started EXCEPT ![p] = TRUE]
    /\ pc' = [pc EXCEPT ![p] = "done"]
    /\ UNCHANGED <<running, spawned, childState, portFile>>
    /\ UNCHANGED nonLifeVars

\* ensure_bridge_running, the wait: 30 s elapsed with no daemon => Err.
EnsureTimeout(p) ==
    /\ pc[p] = "wait"
    /\ ~ IsRunning
    /\ pc' = [pc EXCEPT ![p] = "failed"]
    /\ UNCHANGED <<running, spawned, childState, portFile, auto_started>>
    /\ UNCHANGED nonLifeVars

\* A spawned daemon child starts: it binds 127.0.0.1:<port> and writes the
\* state files, or finds the port taken and exits.
ChildStart(k) ==
    /\ k \in DOMAIN childState
    /\ childState[k] = "starting"
    /\ IF running = 0
       THEN /\ running' = k
            /\ portFile' = k
            /\ childState' = [childState EXCEPT ![k] = "serving"]
       ELSE /\ childState' = [childState EXCEPT ![k] = "exited"]
            /\ UNCHANGED <<running, portFile>>
    /\ UNCHANGED <<spawned, pc, auto_started>>
    /\ UNCHANGED nonLifeVars

LifeNext ==
    \/ \E p \in Procs : EnsureCheck(p)
    \/ \E p \in Procs : EnsureSpawn(p)
    \/ \E p \in Procs : EnsureWait(p)
    \/ \E p \in Procs : EnsureTimeout(p)
    \/ \E k \in Procs : ChildStart(k)

SpecEnsure == LifeInit /\ [][LifeNext]_vars

ReturnedTrue(p) == pc[p] = "done" /\ auto_started[p]
ReturnedFalse(p) == pc[p] = "done" /\ ~ auto_started[p]

\* C10: among processes that call ensure_bridge_running concurrently while
\* no daemon runs, at most one daemon is spawned, at most one caller gets
\* auto_started = true, namely the one whose child created the state files,
\* exactly one does once all have returned, and a caller that found the
\* daemon running gets false and has spawned nothing.
C10_SingleAutoStart ==
    /\ Len(spawned) <= 1
    /\ Cardinality({p \in Procs : ReturnedTrue(p)}) <= 1
    /\ \A p \in Procs :
          ReturnedTrue(p) => \E k \in DOMAIN spawned : spawned[k] = p /\ portFile = k
    /\ \A p \in Procs :
          ReturnedFalse(p) => ~ \E k \in DOMAIN spawned : spawned[k] = p
    /\ (\A p \in Procs : pc[p] = "done")
       => Cardinality({p \in Procs : ReturnedTrue(p)}) = 1

\* What holds of ensure_bridge_running whatever the interleaving: a caller
\* that found the daemon running returned false and spawned nothing, and a
\* caller that returned true had spawned a child.
EnsureResultMatchesSpawn ==
    \A p \in Procs :
        /\ ReturnedFalse(p) => ~ \E k \in DOMAIN spawned : spawned[k] = p
        /\ ReturnedTrue(p) => \E k \in DOMAIN spawned : spawned[k] = p

(***************************************************************************)
(* Part 3. commands::browser::run: dispatch of one CLI invocation          *)
(*                                                                         *)
(*     if command = Close and mode = Extension { return close_extension }  *)
(*     (backend, bridge_auto_started) = create_backend(cli, config)?       *)
(*     match command { Close => close(.., bridge_auto_started), .. }       *)
(***************************************************************************)
Commands == {"Close", "Goto"}
Modes == {"Isolated", "Extension"}

\* Variant: close in Extension mode takes the create_backend path like every
\* other command.
ClosesWithoutBackend_Never(cmd, m) == FALSE

\* run: Close in Extension mode returns close_extension(cli) before any
\* backend is created.
ClosesWithoutBackend(cmd, m) == cmd = "Close" /\ m = "Extension"

\* Variant: close stops the bridge whoever started it.
CloseStopsBridge_Always(auto, m) == TRUE

\* close: the guard in front of bridge_lifecycle::stop_bridge.
CloseStopsBridge(auto, m) == auto /\ m = "Extension"

\* bridge_lifecycle::stop_bridge: the shutdown control message; the daemon
\* stops and removes its state files.
StopBridge(p) ==
    /\ stop_calls' = Append(stop_calls, p)
    /\ running' = 0
    /\ portFile' = 0
    /\ childState' = [k \in DOMAIN childState |->
                         IF k = running THEN "exited" ELSE childState[k]]

\* run up to the backend: the command and the resolved mode of this
\* invocation; create_backend in Isolated mode returns (backend, false),
\* in Extension mode it goes through ensure_bridge_running.  Invocations are
\* numbered in the order in which they start.
RunDispatch(p, cmd, m) ==
    /\ command[p] = "none"
    /\ \A q \in Procs : q < p => command[q] # "none"
    /\ pc[p] = "idle"
    /\ command' = [command EXCEPT ![p] = cmd]
    /\ mode' = [mode EXCEPT ![p] = m]
    /\ pc' = [pc EXCEPT ![p] =
                 IF ClosesWithoutBackend(cmd, m) THEN "close_ext"
                 ELSE IF m = "Extension" THEN "idle"
                 ELSE "done"]
    /\ UNCHANGED <<running, spawned, childState, portFile, auto_started>>
    /\ UNCHANGED <<saw_running, detach_sent, stop_calls, result>>
    /\ UNCHANGED nonRunVars

\* create_backend in Extension mode: ensure_bridge_running(cli.extension_port).
RunEnsureCheck(p) ==
    /\ command[p] # "none"
    /\ EnsureCheck(p)

\* create_backend failed (ensure_bridge_running returned Err): run returns it.
RunError(p) ==
    /\ pc[p] = "failed"
    /\ result' = [result EXCEPT ![p] = "err"]
    /\ pc' = [pc EXCEPT ![p] = "exited"]
    /\ UNCHANGED <<running, spawned, childState, portFile, auto_started>>
    /\ UNCHANGED <<command, mode, saw_running, detach_sent, stop_calls>>
    /\ UNCHANGED nonRunVars

\* run after create_backend: the command itself.  Close is close(cli, config,
\* backend, bridge_auto_started): backend.close()?, then stop_bridge under
\* its guard; backendOk is whether backend.close() succeeded (the outcome of
\* the other commands has no bearing on the bridge and is taken as Ok).
RunCommand(p, backendOk) ==
    /\ pc[p] = "done"
    /\ command[p] # "none"
    /\ command[p] = "Close" \/ backendOk
    /\ pc' = [pc EXCEPT ![p] = "exited"]
    /\ result' = [result EXCEPT ![p] = IF backendOk THEN "ok" ELSE "err"]
    /\ IF command[p] = "Close" /\ backendOk /\ CloseStopsBridge(auto_started[p], mode[p])
       THEN StopBridge(p)
       ELSE UNCHANGED <<stop_calls, running, portFile, childState>>
    /\ UNCHANGED <<spawned, auto_started>>
    /\ UNCHANGED <<command, mode, saw_running, detach_sent>>
    /\ UNCHANGED nonRunVars

\* close_extension, the probe: if the bridge is not running there is nothing
\* to close and the command reports success.
CloseExtensionProbe(p) ==
    /\ pc[p] = "close_ext"
    /\ saw_running' = [saw_running EXCEPT ![p] = IsRunning]
    /\ IF IsRunning
       THEN /\ pc' = [pc EXCEPT ![p] = "detach"]
            /\ UNCHANGED result
       ELSE /\ pc' = [pc EXCEPT ![p] = "exited"]
            /\ result' = [result EXCEPT ![p] = "ok"]
    /\ UNCHANGED <<running, spawned, childState, portFile, auto_started>>
    /\ UNCHANGED <<command, mode, detach_sent, stop_calls>>
    /\ UNCHANGED nonRunVars

\* close_extension, the single send_command("Extension.detachTab"): Ok and
\* Err are both logged only, the command reports success.
CloseExtensionDetach(p, detachOk) ==
    /\ pc[p] = "detach"
    /\ detach_sent' = [detach_sent EXCEPT ![p] = @ + 1]
    /\ result' = [result EXCEPT ![p] = "ok"]
    /\ pc' = [pc EXCEPT ![p] = "exited"]
    /\ UNCHANGED <<running, spawned, childState, portFile, auto_started>>
    /\ UNCHANGED <<command, mode, saw_running, stop_calls>>
    /\ UNCHANGED nonRunVars

RunInit == LifeIdle /\ RunIdle /\ NonRunIdle

RunNext ==
    \/ \E p \in Procs, cmd \in Commands, m \in Modes : RunDispatch(p, cmd, m)
    \/ \E p \in Procs : RunEnsureCheck(p)
    \/ \E p \in Procs : EnsureSpawn(p)
    \/ \E p \in Procs : EnsureWait(p)
    \/ \E p \in Procs : EnsureTimeout(p)
    \/ \E k \in Procs : ChildStart(k)
    \/ \E p \in Procs : RunError(p)
    \/ \E p \in Procs, ok \in BOOLEAN : RunCommand(p, ok)
    \/ \E p \in Procs : CloseExtensionProbe(p)
    \/ \E p \in Procs, ok \in BOOLEAN : CloseExtensionDetach(p, ok)

SpecRun == RunInit /\ [][RunNext]_vars

Stopped(p) == \E i \in DOMAIN stop_calls : stop_calls[i] = p
Exited(p) == pc[p] = "exited"

\* C11: stop_bridge is called by a run exactly when its command is close and
\* its auto_started is true, and no step of a close whose auto_started is
\* false takes the daemon down.
C11_StopAccounting ==
    /\ [](\A p \in Procs : Stopped(p) => command[p] = "Close" /\ auto_started[p])
    /\ [](\A p \in Procs :
             (Exited(p) /\ result[p] = "ok" /\ command[p] = "Close" /\ auto_started[p])
             => Stopped(p))
    /\ [][\A p \in Procs :
             (command[p] = "Close" /\ ~ auto_started[p] /\ pc'[p] # pc[p])
             => (running' = running /\ portFile' = portFile /\ stop_calls' = stop_calls)]_vars

\* A close has returned success while the daemon another process
\* auto-started keeps running, and no stop_bridge was called.
C11_Witness ==
    /\ running # 0
    /\ stop_calls = <<>>
    /\ \E p, q \in Procs :
          /\ p # q
          /\ command[p] = "Close" /\ Exited(p) /\ result[p] = "ok" /\ saw_running[p]
          /\ auto_started[q] /\ spawned[running] = q

\* The steps of a close in Extension mode.
CloseExtStep(p) == command[p] = "Close" /\ mode[p] = "Extension" /\ pc'[p] # pc[p]

\* C12: a close in Extension mode spawns no daemon and creates no state
\* file, returns success, and has sent Extension.detachTab once if its probe
\* found the bridge running and never otherwise.
C12_CloseExtension ==
    /\ [][\A p \in Procs :
             CloseExtStep(p)
             => UNCHANGED <<spawned, childState, running, portFile, tokenFile>>]_vars
    /\ [](\A p \in Procs :
             (command[p] = "Close" /\ mode[p] = "Extension")
             => /\ pc[p] \in {"close_ext", "detach", "exited"}
                /\ detach_sent[p] <= 1
                /\ Exited(p) => /\ result[p] = "ok"
                                /\ detach_sent[p] = (IF saw_running[p] THEN 1 ELSE 0))

\* One close found no bridge and returned success with nothing spawned and
\* no port file; another found the bridge running and sent its one detach.
C12_Witness ==
    /\ \E p \in Procs :
          /\ command[p] = "Close" /\ mode[p] = "Extension" /\ Exited(p)
          /\ ~ saw_running[p] /\ detach_sent[p] = 0 /\ result[p] = "ok"
    /\ \E p \in Procs :
          /\ command[p] = "Close" /\ mode[p] = "Extension" /\ Exited(p)
          /\ saw_running[p] /\ detach_sent[p] = 1 /\ result[p] = "ok"

(***************************************************************************)
(* Part 4. isolated_extension::serve_isolated                              *)
(*                                                                         *)
(* One invocation: launch or reuse the isolated Chrome, replace the state  *)
(* files, run the bridge task, wait for the first of {bridge task exits,   *)
(* launched Chrome exits, SIGINT/SIGTERM}, clean up, terminate Chrome.     *)
(* The bridge task (extension_bridge::serve_with_shutdown) is the daemon   *)
(* of spec.md 4.5: it writes bridge.port when it starts to serve and       *)
(* removes the state files on a clean stop; it is taken to have bound the  *)
(* port, or failed to, by the time the select resolves.                    *)
(***************************************************************************)
FileStates == {NoFile, "stale"}
\* A state file written by another daemon that is serving the port now.
LiveFile == "of the running daemon"

\* Before serve_isolated runs: the isolated Chrome may already be running,
\* and a previous run may have left state files behind, or another daemon
\* may be serving the port, its state files in place.
IsoInit ==
    /\ iso_pc = "start"
    /\ chrome \in {"absent", "running"}
    /\ child = FALSE
    /\ bridge_task = "none"
    /\ reason = "none"
    /\ \E fs \in (FileStates \X FileStates) \cup {<<LiveFile, LiveFile>>} :
         port_file = fs[1] /\ token_file = fs[2]
    /\ probed = FALSE
    /\ signals = <<>>
    /\ iso_result = "none"
    /\ NonIsoIdle

\* serve_isolated, steps 1-13.  installed: extension_installer::is_installed;
\* launchOk: launcher.launch_and_wait succeeded; writeOk: write_token_file
\* succeeded (a failure is only reported); bindOk: the bridge task bound
\* the port, which it cannot while another daemon serves it.
IsoStart(installed, launchOk, writeOk, bindOk) ==
    /\ iso_pc = "start"
    /\ port_file = LiveFile => ~ bindOk
    /\ IF ~ installed \/ (chrome # "running" /\ ~ launchOk)
       THEN /\ iso_pc' = "returned"
            /\ iso_result' = "err"
            /\ UNCHANGED <<chrome, child, bridge_task, port_file, token_file>>
       ELSE /\ iso_pc' = "select"
            /\ child' = (chrome # "running")
            /\ chrome' = "running"
            /\ token_file' = IF writeOk THEN "own" ELSE NoFile
            /\ bridge_task' = IF bindOk THEN "serving" ELSE "err"
            /\ port_file' = IF bindOk THEN "own" ELSE NoFile
            /\ UNCHANGED iso_result
    /\ UNCHANGED <<reason, probed, signals>>
    /\ UNCHANGED nonIsoVars

\* The Chrome process exits (by itself, or after a signal).
ChromeExit ==
    /\ iso_pc \notin {"start", "returned"}
    /\ chrome = "running"
    /\ chrome' = "exited"
    /\ UNCHANGED <<iso_pc, child, bridge_task, reason, port_file, token_file,
                   probed, signals, iso_result>>
    /\ UNCHANGED nonIsoVars

\* The operating system gives the PID of the exited Chrome to a new process.
PidRecycle ==
    /\ iso_pc \notin {"start", "returned"}
    /\ chrome = "exited"
    /\ chrome' = "recycled"
    /\ UNCHANGED <<iso_pc, child, bridge_task, reason, port_file, token_file,
                   probed, signals, iso_result>>
    /\ UNCHANGED nonIsoVars

\* The bridge task ends by itself: Ok(()), Err(..) or a panic (JoinError).
\* Only a clean stop removes the daemon's state files.
BridgeTaskExit(how) ==
    /\ iso_pc = "select"
    /\ bridge_task = "serving"
    /\ bridge_task' = how
    /\ IF how = "ok"
       THEN port_file' = NoFile /\ token_file' = NoFile
       ELSE UNCHANGED <<port_file, token_file>>
    /\ UNCHANGED <<iso_pc, chrome, child, reason, probed, signals, iso_result>>
    /\ UNCHANGED nonIsoVars

\* The bridge task, told to shut down, stops cleanly.
BridgeTaskStop ==
    /\ bridge_task = "stopping"
    /\ iso_pc # "returned"
    /\ bridge_task' = "ok"
    /\ port_file' = NoFile
    /\ token_file' = NoFile
    /\ UNCHANGED <<iso_pc, chrome, child, reason, probed, signals, iso_result>>
    /\ UNCHANGED nonIsoVars

\* shutdown_tx.send(()): a serving bridge task starts to stop.
ShutdownSent == IF bridge_task = "serving" THEN "stopping" ELSE bridge_task

\* select, first branch: the bridge task has finished.
SelectBridgeExited ==
    /\ iso_pc = "select"
    /\ bridge_task \in {"ok", "err", "panic"}
    /\ reason' = "BridgeExited"
    /\ iso_pc' = "cleanup"
    /\ UNCHANGED <<chrome, child, bridge_task, port_file, token_file, probed,
                   signals, iso_result>>
    /\ UNCHANGED nonIsoVars

\* select, second branch: the Chrome this invocation launched has exited
\* (the monitor task exists only if child is Some).
SelectChromeExited ==
    /\ iso_pc = "select"
    /\ child
    /\ chrome \in {"exited", "recycled"}
    /\ reason' = "ChromeExited"
    /\ bridge_task' = ShutdownSent
    /\ iso_pc' = "cleanup"
    /\ UNCHANGED <<chrome, child, port_file, token_file, probed, signals, iso_result>>
    /\ UNCHANGED nonIsoVars

\* select, third branch: SIGINT or SIGTERM.
SelectSignal ==
    /\ iso_pc = "select"
    /\ reason' = "Signal"
    /\ bridge_task' = ShutdownSent
    /\ iso_pc' = "cleanup"
    /\ UNCHANGED <<chrome, child, port_file, token_file, probed, signals, iso_result>>
    /\ UNCHANGED nonIsoVars

\* Variant: the state files are removed on the signal path only.
CleansUpFiles_OnSignalOnly(r) == r = "Signal"

\* Step 15: delete_token_file and delete_port_file, whatever the reason.
CleansUpFiles(r) == TRUE

\* Variant: Chrome is terminated whenever it has not been seen to exit,
\* launched by this invocation or not.
TerminatesChrome_AnyChrome(r, launched) == r # "ChromeExited"

\* Step 15: terminate_chrome(pid) only if we launched Chrome and the reason
\* is not ChromeExited.
TerminatesChrome(r, launched) == r # "ChromeExited" /\ launched

\* Step 15, the cleanup after the select.
IsoCleanup ==
    /\ iso_pc = "cleanup"
    /\ IF CleansUpFiles(reason)
       THEN port_file' = NoFile /\ token_file' = NoFile
       ELSE UNCHANGED <<port_file, token_file>>
    /\ iso_pc' = IF TerminatesChrome(reason, child) THEN "terminate" ELSE "done"
    /\ UNCHANGED <<chrome, child, bridge_task, reason, probed, signals, iso_result>>
    /\ UNCHANGED nonIsoVars

\* A signal sent to chrome_pid, with what was known and true at that time.
Signal(sig) ==
    [sig |-> sig, probed |-> probed, target |-> chrome, launched |-> child,
     reason |-> reason]

\* terminate_chrome: libc::kill(pid, SIGTERM), then the 2 s sleep.
TerminateSigterm ==
    /\ iso_pc = "terminate"
    /\ signals' = Append(signals, Signal("SIGTERM"))
    /\ probed' = FALSE
    /\ iso_pc' = "sleep"
    /\ UNCHANGED <<chrome, child, bridge_task, reason, port_file, token_file, iso_result>>
    /\ UNCHANGED nonIsoVars

\* terminate_chrome: libc::kill(pid, 0) == 0 ?
TerminateProbe ==
    /\ iso_pc = "sleep"
    /\ probed' = (chrome \in {"running", "recycled"})
    /\ iso_pc' = IF chrome \in {"running", "recycled"} THEN "kill" ELSE "done"
    /\ UNCHANGED <<chrome, child, bridge_task, reason, port_file, token_file,
                   signals, iso_result>>
    /\ UNCHANGED nonIsoVars

\* terminate_chrome: libc::kill(pid, SIGKILL).
TerminateSigkill ==
    /\ iso_pc = "kill"
    /\ signals' = Append(signals, Signal("SIGKILL"))
    /\ chrome' = IF chrome = "running" THEN "exited" ELSE chrome
    /\ probed' = FALSE
    /\ iso_pc' = "done"
    /\ UNCHANGED <<child, bridge_task, reason, port_file, token_file, iso_result>>
    /\ UNCHANGED nonIsoVars

\* serve_isolated returns: the bridge task's own result if it ended the run,
\* Ok(()) otherwise.
IsoReturn ==
    /\ iso_pc = "done"
    /\ iso_result' = IF reason = "BridgeExited" /\ bridge_task # "ok" THEN "err" ELSE "ok"
    /\ iso_pc' = "returned"
    /\ UNCHANGED <<chrome, child, bridge_task, reason, port_file, token_file,
                   probed, signals>>
    /\ UNCHANGED nonIsoVars

IsoNext ==
    \/ \E i, l, w, b \in BOOLEAN : IsoStart(i, l, w, b)
    \/ ChromeExit
    \/ PidRecycle
    \/ \E how \in {"ok", "err", "panic"} : BridgeTaskExit(how)
    \/ BridgeTaskStop
    \/ SelectBridgeExited
    \/ SelectChromeExited
    \/ SelectSignal
    \/ IsoCleanup
    \/ TerminateSigterm
    \/ TerminateProbe
    \/ TerminateSigkill
    \/ IsoReturn

SpecIsolated == IsoInit /\ [][IsoNext]_vars

C14_SignalsGuarded ==
    \A i \in DOMAIN signals :
        /\ signals[i].launched
        /\ signals[i].reason # "ChromeExited"
        /\ signals[i].probed

\* What terminate_chrome does guarantee: only a Chrome launched by this
\* invocation and not seen to exit is signalled, and SIGKILL follows a probe
\* that found the PID alive.
SignalsOnlyOwnChrome ==
    \A i \in DOMAIN signals :
        /\ signals[i].launched
        /\ signals[i].reason # "ChromeExited"
        /\ signals[i].sig = "SIGKILL" => signals[i].probed

\* SIGTERM has reached a process that is not Chrome: Chrome exited after the
\* select resolved and its PID was reused.
SigtermHitsRecycledPid ==
    \E i \in DOMAIN signals : signals[i].sig = "SIGTERM" /\ signals[i].target = "recycled"

\* C35: serve_isolated, started while another daemon serves the port, never
\* deletes or overwrites that daemon's bridge.port and bridge.token, so that
\* they are still in place when the second instance has failed or exited.
C35_RunningDaemonFilesKept ==
    [][/\ port_file = LiveFile => port_file' = LiveFile
       /\ token_file = LiveFile => token_file' = LiveFile]_vars

\* What serve_isolated does: past step 7 no state file of another daemon is
\* left, whatever was there when it started.
StateFilesReplaced ==
    iso_pc \in {"select", "cleanup", "terminate", "sleep", "kill", "done"}
    => (port_file # LiveFile /\ token_file # LiveFile)

(***************************************************************************)
(* Part 5. camofox::CamofoxSession and BrowserDriver on the Camofox backend *)
(*                                                                         *)
(* A selector is the sequence of its characters.  The Camoufox server is   *)
(* the environment: a snapshot request succeeds or fails, and a mutating   *)
(* request is carried out and answered ("ok"), refused ("fail"), or        *)
(* carried out and then answered with an error or not at all ("lost").     *)
(***************************************************************************)
TTL == 5                    \* Duration::from_secs(5) in refresh_snapshot
\* u32::MAX = 4294967295, digit by digit (the checker's integers are narrower)
U32MaxDigits == <<"4", "2", "9", "4", "9", "6", "7", "2", "9", "5">>

Digits == {"0", "1", "2", "3", "4", "5", "6", "7", "8", "9"}
DigitVal(ch) ==
    CASE ch = "0" -> 0 [] ch = "1" -> 1 [] ch = "2" -> 2 [] ch = "3" -> 3
      [] ch = "4" -> 4 [] ch = "5" -> 5 [] ch = "6" -> 6 [] ch = "7" -> 7
      [] ch = "8" -> 8 [] ch = "9" -> 9

AllDigits(s) == \A i \in DOMAIN s : s[i] \in Digits

RECURSIVE StripZeros(_)
StripZeros(s) == IF s # <<>> /\ s[1] = "0" THEN StripZeros(Tail(s)) ELSE s

\* a <= b for decimal numerals of the same length
RECURSIVE NumeralLeq(_, _)
NumeralLeq(a, b) ==
    IF a = <<>> THEN TRUE
    ELSE IF DigitVal(a[1]) < DigitVal(b[1]) THEN TRUE
    ELSE IF DigitVal(a[1]) > DigitVal(b[1]) THEN FALSE
    ELSE NumeralLeq(Tail(a), Tail(b))

\* The value of the numeral fits in 32 bits.
FitsU32(s) ==
    LET d == StripZeros(s)
    IN  \/ Len(d) < Len(U32MaxDigits)
        \/ Len(d) = Len(U32MaxDigits) /\ NumeralLeq(d, U32MaxDigits)

\* str::parse::<u32>().is_ok(): an optional '+', then one or more decimal
\* digits whose value fits in 32 bits.
ParsesAsU32(s) ==
    LET d == IF s # <<>> /\ s[1] = "+" THEN Tail(s) ELSE s
    IN  d # <<>> /\ AllDigits(d) /\ FitsU32(d)

\* Variant: the test of the regular expression ^e\d+$.
IsElementRef_Regex(sel) == Len(sel) >= 2 /\ sel[1] = "e" /\ AllDigits(Tail(sel))

\* resolve_selector, phase 1: selector.starts_with('e') &&
\* selector[1..].parse::<u32>().is_ok()
IsElementRef(sel) == sel # <<>> /\ sel[1] = "e" /\ ParsesAsU32(Tail(sel))

SelRef == <<"e", "1">>
SelPlus == <<"e", "+", "1">>
SelBig == <<"e", "4", "2", "9", "4", "9", "6", "7", "2", "9", "6">>
SelCss == <<"#", "a">>
Selectors == {SelRef, SelPlus, SelBig, SelCss}
\* The element_ref find_matching returns from a snapshot that holds a match.
TreeRef == <<"e", "7">>
Tab == "t1"
Outcomes == {"ok", "fail", "lost"}

\* Variant: a snapshot is still fresh at the very end of its TTL.
IsFresh_Inclusive(c) == now - c.timestamp <= TTL

\* SnapshotCache::is_fresh: self.timestamp.elapsed() < self.ttl
IsFresh(c) == now - c.timestamp < TTL

Age(c) == IF c.some THEN now - c.timestamp ELSE -1

\* resolve_selector(sel): what it returns and the cache it leaves.
\* fetchOk: GET /tabs/{tab}/snapshot succeeds; found: the fetched tree holds
\* a node matching sel.
Resolve(sel, fetchOk, found) ==
    LET base == [res |-> "err", err |-> "none", val |-> <<>>, from |-> -1,
                 consulted |-> FALSE, http |-> 0, refreshed |-> FALSE,
                 cache |-> snapshot_cache]
        fresh == snapshot_cache.some /\ IsFresh(snapshot_cache)
        fetched == [some |-> TRUE, version |-> page, timestamp |-> now, has |-> found]
    IN  IF IsElementRef(sel)
        THEN [base EXCEPT !.res = "ok", !.val = sel]
        ELSE IF fresh /\ snapshot_cache.has
        THEN [base EXCEPT !.res = "ok", !.val = TreeRef, !.consulted = TRUE,
                          !.from = snapshot_cache.version]
        ELSE IF active_tab_id = NoTab
        THEN [base EXCEPT !.err = "BrowserOperation", !.consulted = fresh]
        ELSE IF ~ fetchOk
        THEN [base EXCEPT !.err = "BrowserOperation", !.consulted = fresh, !.http = 1]
        ELSE IF found
        THEN [base EXCEPT !.res = "ok", !.val = TreeRef, !.from = page,
                          !.consulted = fresh, !.http = 1, !.refreshed = TRUE,
                          !.cache = fetched]
        ELSE [base EXCEPT !.err = "ElementRefResolution", !.consulted = fresh,
                          !.http = 1, !.refreshed = TRUE, !.cache = fetched]

\* The record of a call.
Call(op, sel, r, performed) ==
    [op |-> op, sel |-> sel, res |-> r.res, err |-> r.err, val |-> r.val,
     from |-> r.from, consulted |-> r.consulted, age |-> Age(snapshot_cache),
     http |-> r.http, refreshed |-> r.refreshed, performed |-> performed,
     cache_changed |-> (snapshot_cache' # snapshot_cache), via |-> "session"]

CallGuard == calls < MaxCalls

\* CamofoxSession::resolve_selector
ResolveSelector(sel, fetchOk, found) ==
    /\ CallGuard
    /\ LET r == Resolve(sel, fetchOk, found)
       IN  /\ snapshot_cache' = r.cache
           /\ last' = Call("resolve_selector", sel, r, FALSE)
    /\ calls' = calls + 1
    /\ UNCHANGED <<active_tab_id, now, page>>
    /\ UNCHANGED nonCamVars

\* Variant: the cache is dropped before the request is sent, so also when
\* the request fails.
CacheAfterFailure_Dropped(c) == NoCache

\* click / type_text / navigate / create_tab: the `?` on the client call
\* returns before `self.snapshot_cache = None` is reached.
CacheAfterFailure(c) == c

\* Variant: a successful action keeps the cached snapshot.
CacheAfterSuccess_Kept(c) == c

\* click / type_text / navigate / create_tab: `self.snapshot_cache = None`.
CacheAfterSuccess(c) == NoCache

\* CamofoxSession::click and CamofoxSession::type_text: resolve the selector,
\* take the active tab, send the request, drop the cache.
Interact(op, sel, fetchOk, found, out) ==
    /\ CallGuard
    /\ LET r == Resolve(sel, fetchOk, found)
       IN  IF r.res = "err"
           THEN /\ snapshot_cache' = r.cache
                /\ last' = Call(op, sel, r, FALSE)
                /\ UNCHANGED page
           ELSE IF active_tab_id = NoTab
           THEN /\ snapshot_cache' = r.cache
                /\ last' = Call(op, sel, [r EXCEPT !.res = "err", !.err = "BrowserOperation"],
                                FALSE)
                /\ UNCHANGED page
           ELSE /\ page' = IF out = "fail" THEN page ELSE page + 1
                /\ snapshot_cache' = IF out = "ok" THEN CacheAfterSuccess(r.cache)
                                     ELSE CacheAfterFailure(r.cache)
                /\ last' = Call(op, sel,
                                [r EXCEPT !.res = IF out = "ok" THEN "ok" ELSE "err",
                                          !.err = IF out = "ok" THEN "none" ELSE "BrowserOperation",
                                          !.http = @ + 1],
                                out # "fail")
    /\ calls' = calls + 1
    /\ UNCHANGED <<active_tab_id, now>>
    /\ UNCHANGED nonCamVars

NoResolve == [res |-> "ok", err |-> "none", val |-> <<>>, from |-> -1,
              consulted |-> FALSE, http |-> 0, refreshed |-> FALSE,
              cache |-> snapshot_cache]

\* CamofoxSession::navigate
Navigate(out) ==
    /\ CallGuard
    /\ IF active_tab_id = NoTab
       THEN /\ UNCHANGED <<snapshot_cache, page>>
            /\ last' = Call("navigate", <<>>,
                            [NoResolve EXCEPT !.res = "err", !.err = "BrowserOperation"], FALSE)
       ELSE /\ page' = IF out = "fail" THEN page ELSE page + 1
            /\ snapshot_cache' = IF out = "ok" THEN CacheAfterSuccess(snapshot_cache)
                                 ELSE CacheAfterFailure(snapshot_cache)
            /\ last' = Call("navigate", <<>>,
                            [NoResolve EXCEPT !.res = IF out = "ok" THEN "ok" ELSE "err",
                                              !.err = IF out = "ok" THEN "none" ELSE "BrowserOperation",
                                              !.http = 1],
                            out # "fail")
    /\ calls' = calls + 1
    /\ UNCHANGED <<active_tab_id, now>>
    /\ UNCHANGED nonCamVars

\* CamofoxSession::create_tab
CreateTab(out) ==
    /\ CallGuard
    /\ page' = IF out = "fail" THEN page ELSE page + 1
    /\ active_tab_id' = IF out = "ok" THEN Tab ELSE active_tab_id
    /\ snapshot_cache' = IF out = "ok" THEN CacheAfterSuccess(snapshot_cache)
                         ELSE CacheAfterFailure(snapshot_cache)
    /\ last' = Call("create_tab", <<>>,
                    [NoResolve EXCEPT !.res = IF out = "ok" THEN "ok" ELSE "err",
                                      !.err = IF out = "ok" THEN "none" ELSE "BrowserOperation",
                                      !.http = 1],
                    out # "fail")
    /\ calls' = calls + 1
    /\ UNCHANGED now
    /\ UNCHANGED nonCamVars

\* Variant: goto always navigates.
GotoCreatesTab_Never == FALSE

\* BrowserDriver::goto, the Camofox arm: `if session.active_tab().is_err()`
GotoCreatesTab == active_tab_id = NoTab

\* BrowserDriver::goto on Camofox: create_tab(url) with no active tab,
\* navigate(url) otherwise.
Goto(out) ==
    /\ CallGuard
    /\ page' = IF out = "fail" THEN page ELSE page + 1
    /\ IF GotoCreatesTab
       THEN /\ active_tab_id' = IF out = "ok" THEN Tab ELSE active_tab_id
            /\ snapshot_cache' = IF out = "ok" THEN CacheAfterSuccess(snapshot_cache)
                                 ELSE CacheAfterFailure(snapshot_cache)
            /\ last' = [Call("create_tab", <<>>,
                             [NoResolve EXCEPT !.res = IF out = "ok" THEN "ok" ELSE "err",
                                               !.err = IF out = "ok" THEN "none"
                                                       ELSE "BrowserOperation",
                                               !.http = 1],
                             out # "fail") EXCEPT !.via = "goto"]
       ELSE IF active_tab_id = NoTab
       THEN /\ UNCHANGED <<active_tab_id, snapshot_cache>>
            /\ last' = [Call("navigate", <<>>,
                             [NoResolve EXCEPT !.res = "err", !.err = "BrowserOperation"],
                             FALSE) EXCEPT !.via = "goto"]
       ELSE /\ UNCHANGED active_tab_id
            /\ snapshot_cache' = IF out = "ok" THEN CacheAfterSuccess(snapshot_cache)
                                 ELSE CacheAfterFailure(snapshot_cache)
            /\ last' = [Call("navigate", <<>>,
                             [NoResolve EXCEPT !.res = IF out = "ok" THEN "ok" ELSE "err",
                                               !.err = IF out = "ok" THEN "none"
                                                       ELSE "BrowserOperation",
                                               !.http = 1],
                             out # "fail") EXCEPT !.via = "goto"]
    /\ calls' = calls + 1
    /\ UNCHANGED now
    /\ UNCHANGED nonCamVars

\* CamofoxSession::get_content: refresh_snapshot, then the tree as JSON.
GetContent(fetchOk, found) ==
    /\ CallGuard
    /\ IF active_tab_id = NoTab
       THEN /\ UNCHANGED snapshot_cache
            /\ last' = Call("get_content", <<>>,
                            [NoResolve EXCEPT !.res = "err", !.err = "BrowserOperation"], FALSE)
       ELSE IF ~ fetchOk
       THEN /\ UNCHANGED snapshot_cache
            /\ last' = Call("get_content", <<>>,
                            [NoResolve EXCEPT !.res = "err", !.err = "BrowserOperation",
                                              !.http = 1], FALSE)
       ELSE /\ snapshot_cache' = [some |-> TRUE, version |-> page, timestamp |-> now,
                                  has |-> found]
            /\ last' = Call("get_content", <<>>,
                            [NoResolve EXCEPT !.http = 1, !.refreshed = TRUE], FALSE)
    /\ calls' = calls + 1
    /\ UNCHANGED <<active_tab_id, now, page>>
    /\ UNCHANGED nonCamVars

\* Variant: the error the uniform action set prescribes.
ExecuteJsError_Unsupported == "Unsupported"

\* BrowserDriver::execute_js on Camofox:
\* Err(BrowserOperation("JavaScript execution not supported in Camoufox backend"))
ExecuteJsError == "BrowserOperation"

\* BrowserDriver::execute_js, the Camofox arm.
ExecuteJs ==
    /\ CallGuard
    /\ UNCHANGED <<active_tab_id, snapshot_cache, now, page>>
    /\ last' = Call("execute_js", <<>>,
                    [NoResolve EXCEPT !.res = "err", !.err = ExecuteJsError], FALSE)
    /\ calls' = calls + 1
    /\ UNCHANGED nonCamVars

\* One second passes.
Tick ==
    /\ now < MaxTime
    /\ now' = now + 1
    /\ UNCHANGED <<active_tab_id, snapshot_cache, page, calls, last>>
    /\ UNCHANGED nonCamVars

CamInit == CamIdle /\ NonCamIdle

CamNext ==
    \/ \E sel \in Selectors, f, h \in BOOLEAN : ResolveSelector(sel, f, h)
    \/ \E op \in {"click", "type_text"}, sel \in Selectors, f, h \in BOOLEAN,
          out \in Outcomes : Interact(op, sel, f, h, out)
    \/ \E out \in Outcomes : Navigate(out)
    \/ \E out \in Outcomes : CreateTab(out)
    \/ \E out \in Outcomes : Goto(out)
    \/ \E f, h \in BOOLEAN : GetContent(f, h)
    \/ ExecuteJs
    \/ Tick

SpecCamofox == CamInit /\ [][CamNext]_vars

MutatingOps == {"click", "type_text", "navigate", "create_tab"}
ResolvingOps == {"resolve_selector", "click", "type_text"}

\* C15: whenever click, type_text, navigate or create_tab has returned,
\* snapshot_cache is None.
C15_CacheEmptyOnReturn ==
    last.op \in MutatingOps => ~ snapshot_cache.some

\* What the four methods do guarantee: the cache is None when they return Ok.
CacheEmptyOnSuccess ==
    (last.op \in MutatingOps /\ last.res = "ok") => ~ snapshot_cache.some

\* A mutating call has returned an error and left a cached snapshot behind.
CacheKeptOnError ==
    last.op \in MutatingOps /\ last.res = "err" /\ snapshot_cache.some

\* The step is a resolve_selector call with a selector that is no element ref.
ResolveCallStep ==
    /\ calls' = calls + 1
    /\ last'.op = "resolve_selector"
    /\ ~ IsElementRef(last'.sel)
    /\ ~ IsElementRef_Regex(last'.sel)

\* C16: a resolve_selector call that follows a mutating action which was
\* carried out finds the cache empty, fetches a snapshot, and answers only
\* from a snapshot of the page as the action left it.
C16_FreshAfterMutation ==
    [][(last.op \in MutatingOps /\ last.performed /\ ResolveCallStep)
       => (/\ ~ snapshot_cache.some
           /\ last'.res = "ok" => (last'.http >= 1 /\ last'.from = page))]_vars

\* What holds: after a mutating action that returned Ok, the next
\* resolve_selector finds the cache empty and answers from a new snapshot.
FreshAfterSuccess ==
    [][(last.op \in MutatingOps /\ last.res = "ok" /\ ResolveCallStep)
       => (/\ ~ snapshot_cache.some
           /\ last'.res = "ok" => (last'.http >= 1 /\ last'.from = page))]_vars

\* resolve_selector has answered from a snapshot older than the page.
StaleRefReturned ==
    last.op = "resolve_selector" /\ last.res = "ok" /\ last.from >= 0 /\ last.from < page

\* C17: the cached tree is consulted only at an age below the TTL; at an
\* age of TTL or more a selector that is no element ref makes the session
\* fetch a snapshot instead.
C17_TtlStrict ==
    /\ last.consulted => (0 <= last.age /\ last.age < TTL)
    /\ (last.op \in ResolvingOps /\ ~ IsElementRef(last.sel) /\ last.age >= TTL)
       => (~ last.consulted /\ last.http >= 1)

\* resolve_selector met a cached snapshot of age exactly TTL that held a
\* match, left it aside and fetched a new one.
C17_Witness ==
    /\ last.op = "resolve_selector"
    /\ last.age = TTL
    /\ ~ last.consulted
    /\ last.http = 1
    /\ last.res = "ok" /\ last.from = page

\* C18: resolve_selector returns its argument verbatim, with no HTTP request
\* and no change of the cache, exactly when the selector matches ^e\d+$.
C18_RefFastPath ==
    last.op = "resolve_selector"
    => ((last.res = "ok" /\ last.val = last.sel /\ last.http = 0 /\ ~ last.cache_changed)
        <=> IsElementRef_Regex(last.sel))

\* What holds: the fast path is taken exactly for 'e' followed by what
\* parses as a u32, and it sends nothing and leaves the cache alone.
RefFastPathAsCoded ==
    last.op = "resolve_selector"
    => ((last.res = "ok" /\ last.val = last.sel /\ last.http = 0 /\ ~ last.cache_changed)
        <=> IsElementRef(last.sel))

\* C20: an action the Camoufox backend does not support returns
\* Unsupported(action, "camofox"), sends nothing and changes nothing.
C20_Unsupported ==
    last.op = "execute_js"
    => (/\ last.res = "err"
        /\ last.err = "Unsupported"
        /\ last.http = 0
        /\ ~ last.cache_changed)

\* What holds: execute_js fails without any request or change of state.
ExecuteJsRefused ==
    last.op = "execute_js"
    => (last.res = "err" /\ last.http = 0 /\ ~ last.cache_changed)

\* The step is a call of BrowserDriver::goto.
GotoStep == calls' = calls + 1 /\ last'.via = "goto"

\* C34: goto on the Camoufox backend creates a tab exactly when the session
\* has no active tab and navigates the active tab otherwise, leaving it the
\* active tab; after a goto that returned Ok the session has an active tab.
C34_GotoCreatesOrNavigates ==
    [][GotoStep
       => (/\ last'.op = "create_tab" <=> active_tab_id = NoTab
           /\ last'.op = "navigate" <=> active_tab_id # NoTab
           /\ active_tab_id # NoTab => active_tab_id' = active_tab_id
           /\ last'.res = "ok" => active_tab_id' # NoTab)]_vars

\* goto has created a tab and returned Ok on a session that lost an earlier
\* create_tab: the page was touched before, the session had no tab.
C34_Witness ==
    /\ last.via = "goto"
    /\ last.op = "create_tab"
    /\ last.res = "ok"
    /\ active_tab_id = Tab
    /\ page >= 2

\* The cache holds a snapshot younger than the TTL with a match in it.
CacheHit == snapshot_cache.some /\ now - snapshot_cache.timestamp < TTL /\ snapshot_cache.has

\* C32 as stated: for a selector that is no element ref, resolve_selector
\* sends one snapshot request, or none exactly when the cache is fresh and
\* holds a match; when the refreshed tree holds no match it returns
\* ElementRefResolution.
C32_OneSnapshotRequest ==
    [][ResolveCallStep
       => (/\ last'.http <= 1
           /\ last'.http = 0 <=> CacheHit
           /\ (last'.refreshed /\ ~ snapshot_cache'.has)
              => (last'.res = "err" /\ last'.err = "ElementRefResolution"))]_vars

\* C32, amended: for a selector that is no element ref, resolve_selector
\* sends at most one snapshot request: none exactly when the cache is fresh
\* and holds a match or when the session has no active tab, in which case it
\* returns BrowserOperation; when the refreshed tree holds no match it
\* returns ElementRefResolution.
C32_OneSnapshotRequestWithTab ==
    [][ResolveCallStep
       => (/\ last'.http <= 1
           /\ last'.http = 0 <=> (CacheHit \/ active_tab_id = NoTab)
           /\ (~ CacheHit /\ active_tab_id = NoTab)
              => (last'.res = "err" /\ last'.err = "BrowserOperation")
           /\ (last'.refreshed /\ ~ snapshot_cache'.has)
              => (last'.res = "err" /\ last'.err = "ElementRefResolution"))]_vars

\* resolve_selector met a fresh snapshot without a match, fetched one more,
\* found no match in it either and returned ElementRefResolution.
C32_Witness ==
    /\ last.op = "resolve_selector"
    /\ ~ IsElementRef(last.sel)
    /\ last.consulted
    /\ last.http = 1
    /\ last.refreshed
    /\ last.err = "ElementRefResolution"

(***************************************************************************)
(* Part 6. camofox::snapshot: AccessibilityTreeExt::find_matching          *)
(*                                                                         *)
(* A tree is the sequence of its nodes in depth-first pre-order, each with *)
(* its depth; the children of node i are the nodes of depth[i] + 1 that    *)
(* follow it before the next node of depth <= depth[i].  A node that       *)
(* carries an element_ref carries the ref numbered by its position.        *)
(***************************************************************************)
Roles == {"button", "div"}
FindSelectors == {"button", " BUTTON "}

NodesOf(n) == [1..n -> [role : Roles, has_ref : BOOLEAN, depth : 0..(n - 1)]]

WellFormed(t) ==
    /\ t[1].depth = 0
    /\ \A i \in 2..Len(t) : 1 <= t[i].depth /\ t[i].depth <= t[i - 1].depth + 1

Trees == UNION {{t \in NodesOf(n) : WellFormed(t)} : n \in 1..MaxNodes}

\* node.element_ref, NoRef for None
ElementRef(t, i) == IF t[i].has_ref THEN i ELSE NoRef

\* selector.trim() and the ASCII lower case of the result
TrimLower(sel) ==
    CASE sel = " BUTTON " -> "button"
      [] sel = "BUTTON" -> "button"
      [] OTHER -> sel

\* matches_selector for a bare tag name (no '#', '.', '[' or ':'):
\* self.role.eq_ignore_ascii_case(selector.trim())
MatchesSelector(node, sel) == TrimLower(node.role) = TrimLower(sel)

\* The last node of the subtree of node i.
SubtreeEnd(t, i) ==
    CHOOSE j \in i..Len(t) :
        /\ \A k \in (i + 1)..j : t[k].depth > t[i].depth
        /\ (j = Len(t) \/ t[j + 1].depth <= t[i].depth)

\* node.children, left to right
RECURSIVE ChildrenFrom(_, _, _)
ChildrenFrom(t, i, k) ==
    IF k > SubtreeEnd(t, i) THEN <<>>
    ELSE IF t[k].depth = t[i].depth + 1 THEN <<k>> \o ChildrenFrom(t, i, k + 1)
    ELSE ChildrenFrom(t, i, k + 1)

Children(t, i) == ChildrenFrom(t, i, i + 1)

\* Variant: a matching node that carries no element_ref does not end the
\* search of its subtree.
MatchEndsSearch_IfRef(t, i, sel) == MatchesSelector(t[i], sel) /\ t[i].has_ref

\* find_matching: `if self.matches_selector(selector) { return
\* self.element_ref.as_deref(); }`
MatchEndsSearch(t, i, sel) == MatchesSelector(t[i], sel)

RECURSIVE FindMatching(_, _, _)
RECURSIVE FindInChildren(_, _, _)
\* find_matching on node i
FindMatching(t, i, sel) ==
    IF MatchEndsSearch(t, i, sel) THEN ElementRef(t, i)
    ELSE FindInChildren(t, Children(t, i), sel)

\* find_matching, the loop over the children: the first Some wins
FindInChildren(t, cs, sel) ==
    IF cs = <<>> THEN NoRef
    ELSE LET r == FindMatching(t, Head(cs), sel)
         IN  IF r # NoRef THEN r ELSE FindInChildren(t, Tail(cs), sel)

FindInit ==
    /\ fm_tree \in Trees
    /\ fm_selector \in FindSelectors
    /\ fm_result = Unset
    /\ NonFindIdle

\* tree.find_matching(selector) on the root
FindMatchingCall ==
    /\ fm_result = Unset
    /\ fm_result' = FindMatching(fm_tree, 1, fm_selector)
    /\ UNCHANGED <<fm_tree, fm_selector>>
    /\ UNCHANGED nonFindVars

FindNext == FindMatchingCall

SpecFind == FindInit /\ [][FindNext]_vars

\* The nodes, in pre-order, that match the selector and carry an element_ref.
MatchesWithRef ==
    {i \in DOMAIN fm_tree : MatchesSelector(fm_tree[i], fm_selector) /\ fm_tree[i].has_ref}

IsAncestor(t, a, i) == a < i /\ i <= SubtreeEnd(t, a)

\* The matching nodes none of whose ancestors matches.
TopMatches ==
    {i \in DOMAIN fm_tree :
        /\ MatchesSelector(fm_tree[i], fm_selector)
        /\ ~ \E a \in DOMAIN fm_tree :
               IsAncestor(fm_tree, a, i) /\ MatchesSelector(fm_tree[a], fm_selector)}

Min(S) == CHOOSE x \in S : \A y \in S : x <= y

\* C19: find_matching returns the element_ref of the first node in
\* pre-order that matches and carries an element_ref, and None only when
\* the tree holds no such node.
C19_FirstMatchWithRef ==
    fm_result # Unset
    => fm_result = (IF MatchesWithRef = {} THEN NoRef ELSE Min(MatchesWithRef))

\* What find_matching computes: a matching node ends the search of its
\* subtree whether it carries an element_ref or not, so the result is the
\* ref of the first ref-carrying node among the matching nodes that have no
\* matching ancestor.
FindMatchingAsCoded ==
    fm_result # Unset
    => LET S == {i \in TopMatches : fm_tree[i].has_ref}
       IN  fm_result = (IF S = {} THEN NoRef ELSE Min(S))

\* None was returned although a node below a ref-less match matches and
\* carries an element_ref.
MatchBelowReflessMatchMissed ==
    /\ fm_result = NoRef
    /\ MatchesWithRef # {}

(***************************************************************************)
(* Part 7. router::BrowserDriver::from_config                              *)
(***************************************************************************)
Backends == {"Cdp", "Camofox"}

\* BrowserBackend::default(), "4. Default: CDP"
DefaultBackend == "Cdp"

\* config.browser.backend as from_config reads it: the field is a plain
\* BrowserBackend, so a config file that does not set it holds the default.
ConfigBackend(setting) == IF setting = NotSet THEN DefaultBackend ELSE setting

\* Option::or
OptOr(a, b) == IF a # NotSet THEN a ELSE b

\* Option::unwrap_or / unwrap_or_default
UnwrapOr(a, d) == IF a # NotSet THEN a ELSE d

\* Variant: the global setting is consulted before the profile's.
ResolveBackend_GlobalFirst(flag, prof, glob) ==
    IF flag THEN "Camofox"
    ELSE UnwrapOr(OptOr(glob, prof), DefaultBackend)

\* from_config, `let backend = if cli.camofox { Camofox } else {
\* profile.backend.or(Some(config.browser.backend)).unwrap_or_default() }`
ResolveBackend(flag, prof, glob) ==
    IF flag THEN "Camofox"
    ELSE UnwrapOr(OptOr(prof, ConfigBackend(glob)), DefaultBackend)

\* cli.camofox_port.or(profile.camofox_port).unwrap_or(config.browser.camofox.port)
ResolvePort(flag, prof) == UnwrapOr(OptOr(flag, prof), "config port")

RouterInit ==
    /\ camofox \in BOOLEAN
    /\ profile_backend \in Backends \cup {NotSet}
    /\ global_backend \in Backends \cup {NotSet}
    /\ cli_port \in {NotSet, "cli port"}
    /\ profile_port \in {NotSet, "profile port"}
    /\ chosen = "none"
    /\ driver = NoDriver
    /\ NonRouterIdle

\* BrowserDriver::from_config.  connectOk is whether CamofoxSession::connect
\* succeeded; the Cdp arm cannot fail.
FromConfig(connectOk) ==
    /\ chosen = "none"
    /\ chosen' = ResolveBackend(camofox, profile_backend, global_backend)
    /\ driver' = IF chosen' = "Cdp"
                   THEN [kind |-> "Cdp", port |-> NotSet]
                 ELSE IF connectOk
                   THEN [kind |-> "Camofox", port |-> ResolvePort(cli_port, profile_port)]
                 ELSE [kind |-> "err", port |-> NotSet]
    /\ UNCHANGED <<camofox, profile_backend, global_backend, cli_port, profile_port>>
    /\ UNCHANGED nonRouterVars

RouterNext == \E connectOk \in BOOLEAN : FromConfig(connectOk)

SpecRouter == RouterInit /\ [][RouterNext]_vars

\* C21: the backend from_config chooses is Camofox whenever --camofox is
\* set, whatever the configs say; otherwise the profile's backend if the
\* profile sets one; otherwise the global browser.backend; and Cdp when
\* nothing is set.  The driver returned is of the chosen backend.
C21_BackendPriority ==
    chosen # "none"
    => /\ chosen = (IF camofox THEN "Camofox"
                    ELSE IF profile_backend # NotSet THEN profile_backend
                    ELSE IF global_backend # NotSet THEN global_backend
                    ELSE "Cdp")
       /\ driver.kind \in {chosen, "err"}
       /\ driver.kind = "Cdp" => driver.port = NotSet

\* spec.md 8, scenario 3: the flag beats a profile and a global config that
\* both say cdp; and a profile that says camofox beats a global cdp.
C21_Witness ==
    /\ chosen = "Camofox"
    /\ driver.kind = "Camofox"
    /\ \/ camofox /\ profile_backend = "Cdp" /\ global_backend = "Cdp"
       \/ ~camofox /\ profile_backend = "Camofox" /\ global_backend = "Cdp"

(***************************************************************************)
(* Part 8. commands::browser::run, step by step for one invocation:        *)
(*         the --profile check, the --cdp override, status, connect,       *)
(*         close_extension and the commands that go through a backend.     *)
(***************************************************************************)
OldSession == "old record"
EndpointKinds == {"port", "ws", "other"}      \* "9222" | "ws://..." | anything else
ServerStates == {"none", "not json", "version", "version without url"}
EntryCommands == {"Status", "Connect", "Close", "Goto"}

\* resolve_mode: --extension, then --browser-mode, then config.browser.mode
ResolveMode(c, cfg) ==
    IF c.extension THEN "Extension"
    ELSE IF c.browser_mode # NotSet THEN c.browser_mode
    ELSE cfg

\* str::trim on the profile names of the model
TrimName(n) == IF n = " " THEN "" ELSE n

\* effective_profile_name, with config.browser.default_profile left empty
EffectiveProfileName(c) ==
    IF c.profile # NotSet /\ TrimName(c.profile) # "" THEN TrimName(c.profile)
    ELSE "actionbook"

\* Variant: --profile is accepted in extension mode.
ProfileRejected_Never(m, prof) == FALSE

\* run: `resolve_mode(cli, &config) == BrowserMode::Extension &&
\* cli.profile.is_some()`
ProfileRejected(m, prof) == m = "Extension" /\ prof # NotSet

\* Variant: only a body that is not JSON fails the probe.
ProbeFailed_OnlyBadJson(server) == server = "not json"

\* resolve_cdp_endpoint, port branch: send() fails when no server answers,
\* resp.json() fails on a body that is not JSON
ProbeFailed(server) == server \in {"none", "not json"}

\* resolve_cdp_endpoint: the Result, and whether GET /json/version was sent
ResolveCdpEndpoint(endpoint, server) ==
    CASE endpoint = "ws" ->
           [ok |-> TRUE, err |-> "none", url |-> "endpoint", probed |-> FALSE]
      [] endpoint = "port" ->
           IF ProbeFailed(server)
             THEN [ok |-> FALSE, err |-> "CdpConnectionFailed", url |-> "none",
                   probed |-> TRUE]
           ELSE IF server = "version"
             THEN [ok |-> TRUE, err |-> "none", url |-> "webSocketDebuggerUrl",
                   probed |-> TRUE]
           ELSE [ok |-> TRUE, err |-> "none", url |-> "ws://127.0.0.1:port",
                 probed |-> TRUE]
      [] OTHER ->
           [ok |-> FALSE, err |-> "CdpConnectionFailed", url |-> "none",
            probed |-> FALSE]

ProbeEffect(r) == IF r.probed THEN <<"GET /json/version">> ELSE <<>>

\* resolve_cdp_endpoint(endpoint).await? followed by
\* save_external_session(profile_name, cdp_port, &cdp_url)?, as in
\* ensure_cdp_override and in connect; next is the position on success.
ResolveAndSave(endpoint, next) ==
    LET r == ResolveCdpEndpoint(endpoint, cdp_server)
    IN  IF r.ok
          THEN /\ sessions' = [sessions EXCEPT ![EffectiveProfileName(cli)] = r.url]
               /\ effects' = effects \o ProbeEffect(r) \o <<"save_external_session">>
               /\ entry_pc' = next
               /\ outcome' = IF next = "done" THEN "ok" ELSE outcome
        ELSE /\ sessions' = sessions
             /\ effects' = effects \o ProbeEffect(r)
             /\ entry_pc' = "done"
             /\ outcome' = r.err

EntryInit ==
    /\ cli \in [extension : BOOLEAN, browser_mode : Modes \cup {NotSet},
                profile : {NotSet, "work", " "}, cdp : EndpointKinds \cup {NotSet}]
    /\ config_mode \in Modes
    /\ browser_command \in
         [name : EntryCommands \ {"Connect"}, endpoint : {NotSet}]
         \cup [name : {"Connect"}, endpoint : EndpointKinds]
    /\ cdp_server \in ServerStates
    /\ entry_pc = "start"
    /\ effects = <<>>
    /\ sessions \in [ProfileNames -> {NoSession, OldSession}]
    /\ outcome = "none"
    /\ NonEntryIdle

\* run, the first check: --profile is not supported in extension mode
EntryProfileCheck ==
    /\ entry_pc = "start"
    /\ IF ProfileRejected(ResolveMode(cli, config_mode), cli.profile)
         THEN entry_pc' = "done" /\ outcome' = "Other"
         ELSE entry_pc' = "override" /\ outcome' = outcome
    /\ UNCHANGED <<cli, config_mode, browser_command, cdp_server, effects, sessions>>
    /\ UNCHANGED nonEntryVars

\* run, the CDP override: isolated mode only, skipped for connect;
\* ensure_cdp_override returns Ok(()) at once without --cdp
EntryCdpOverride ==
    /\ entry_pc = "override"
    /\ IF /\ ResolveMode(cli, config_mode) = "Isolated"
          /\ browser_command.name # "Connect"
          /\ cli.cdp # NotSet
         THEN ResolveAndSave(cli.cdp, "dispatch")
         ELSE entry_pc' = "dispatch" /\ UNCHANGED <<effects, sessions, outcome>>
    /\ UNCHANGED <<cli, config_mode, browser_command, cdp_server>>
    /\ UNCHANGED nonEntryVars

\* status(cli, &config): reads the session status, writes nothing
EntryStatus ==
    /\ entry_pc = "dispatch"
    /\ browser_command.name = "Status"
    /\ effects' = effects \o <<"get_status">>
    /\ entry_pc' = "done"
    /\ outcome' = "ok"
    /\ UNCHANGED <<cli, config_mode, browser_command, cdp_server, sessions>>
    /\ UNCHANGED nonEntryVars

\* connect(cli, &config, endpoint)
EntryConnect ==
    /\ entry_pc = "dispatch"
    /\ browser_command.name = "Connect"
    /\ ResolveAndSave(browser_command.endpoint, "done")
    /\ UNCHANGED <<cli, config_mode, browser_command, cdp_server>>
    /\ UNCHANGED nonEntryVars

\* close in extension mode: close_extension(cli), which probes the bridge
\* and sends Extension.detachTab only to a bridge that is up
EntryCloseExtension(bridgeUp) ==
    /\ entry_pc = "dispatch"
    /\ browser_command.name = "Close"
    /\ ResolveMode(cli, config_mode) = "Extension"
    /\ effects' = effects \o <<"is_bridge_running">>
                  \o (IF bridgeUp THEN <<"Extension.detachTab">> ELSE <<>>)
    /\ entry_pc' = "done"
    /\ outcome' = "ok"
    /\ UNCHANGED <<cli, config_mode, browser_command, cdp_server, sessions>>
    /\ UNCHANGED nonEntryVars

\* every other command: create_backend (in extension mode
\* ensure_bridge_running, which probes the bridge and spawns one if none is
\* up), then the command on the backend
EntryBackend(bridgeUp) ==
    /\ entry_pc = "dispatch"
    /\ browser_command.name \notin {"Status", "Connect"}
    /\ ~(browser_command.name = "Close" /\ ResolveMode(cli, config_mode) = "Extension")
    /\ effects' = effects
                  \o (IF ResolveMode(cli, config_mode) = "Extension"
                        THEN <<"is_bridge_running">>
                             \o (IF bridgeUp THEN <<>> ELSE <<"spawn bridge">>)
                        ELSE <<>>)
                  \o <<"backend command">>
    /\ entry_pc' = "done"
    /\ outcome' = "ok"
    /\ UNCHANGED <<cli, config_mode, browser_command, cdp_server, sessions>>
    /\ UNCHANGED nonEntryVars

EntryNext ==
    \/ EntryProfileCheck
    \/ EntryCdpOverride
    \/ EntryStatus
    \/ EntryConnect
    \/ \E bridgeUp \in BOOLEAN : EntryCloseExtension(bridgeUp)
    \/ \E bridgeUp \in BOOLEAN : EntryBackend(bridgeUp)

SpecEntry == EntryInit /\ [][EntryNext]_vars

EffectSet == {effects[i] : i \in DOMAIN effects}
NoSessionWritten == \A n \in ProfileNames : sessions[n] \in {NoSession, OldSession}

\* C22: when the resolved mode is Extension and --profile is given, every
\* browser command (close, status and connect included) fails with an error
\* before the bridge is probed or started, before any CDP endpoint is
\* resolved and before any session or bridge file is written.
C22_ProfileRejectedFirst ==
    (/\ ResolveMode(cli, config_mode) = "Extension"
     /\ cli.profile # NotSet
     /\ entry_pc # "start")
    => /\ entry_pc = "done"
       /\ outcome = "Other"
       /\ effects = <<>>
       /\ NoSessionWritten

\* `close --profile work --extension` has been refused.
C22_Witness ==
    /\ cli.extension
    /\ cli.profile = "work"
    /\ browser_command.name = "Close"
    /\ entry_pc = "done"
    /\ outcome = "Other"

\* C25: resolving a port-only CDP endpoint on which no server answers fails
\* with CdpConnectionFailed; connect and the --cdp override then write no
\* session record, and the requested command is not run.
C25_NoServerNoSession ==
    ("GET /json/version" \in EffectSet /\ cdp_server = "none")
    => /\ entry_pc = "done"
       /\ outcome = "CdpConnectionFailed"
       /\ effects = <<"GET /json/version">>
       /\ NoSessionWritten

\* `goto --cdp 9222` with nothing listening on the port has failed.
C25_Witness ==
    /\ browser_command.name = "Goto"
    /\ cli.cdp = "port"
    /\ cdp_server = "none"
    /\ "GET /json/version" \in EffectSet
    /\ outcome = "CdpConnectionFailed"

(***************************************************************************)
(* Part 9. commands::browser::normalize_navigation_url                     *)
(***************************************************************************)
\* The characters of the model: a letter, a digit, the separators the
\* function looks at, and a blank.
Chars == {"a", "1", ":", "/", "?", " "}
Alpha == {"a"}
AsciiDigits == {"1"}
Whitespace == {" "}
Https == <<"h", "t", "t", "p", "s", ":", "/", "/">>

SeqsUpTo(n) == UNION {[1..k -> Chars] : k \in 0..n}

RECURSIVE TrimStart(_)
TrimStart(u) ==
    IF u # <<>> /\ Head(u) \in Whitespace THEN TrimStart(Tail(u)) ELSE u

RECURSIVE TrimEnd(_)
TrimEnd(u) ==
    IF u # <<>> /\ u[Len(u)] \in Whitespace
      THEN TrimEnd(SubSeq(u, 1, Len(u) - 1)) ELSE u

\* str::trim
Trim(u) == TrimEnd(TrimStart(u))

\* str::starts_with
StartsWith(u, pre) == Len(u) >= Len(pre) /\ SubSeq(u, 1, Len(pre)) = pre

\* str::contains
Contains(u, pat) ==
    \E i \in 1..(Len(u) - Len(pat) + 1) : SubSeq(u, i, i + Len(pat) - 1) = pat

\* input.find(['/', '?', '#']).unwrap_or(input.len()), as the length of the
\* authority that precedes the boundary
AuthorityLen(u) ==
    LET B == {i \in DOMAIN u : u[i] \in {"/", "?", "#"}}
    IN  IF B = {} THEN Len(u) ELSE (CHOOSE i \in B : \A j \in B : i <= j) - 1

\* is_host_port_with_optional_path
IsHostPortWithOptionalPath(u) ==
    LET authority == SubSeq(u, 1, AuthorityLen(u))
        Colons == {i \in DOMAIN authority : authority[i] = ":"}
    IN  /\ authority # <<>>
        /\ Colons # {}
        /\ LET c == CHOOSE i \in Colons : \A j \in Colons : j <= i   \* rsplit_once
               host == SubSeq(authority, 1, c - 1)
               port == SubSeq(authority, c + 1, Len(authority))
           IN  /\ host # <<>>
               /\ port # <<>>
               /\ \A i \in DOMAIN port : port[i] \in AsciiDigits

\* has_explicit_scheme, the loop over the characters after the first
RECURSIVE SchemeScan(_)
SchemeScan(u) ==
    IF u = <<>> THEN FALSE
    ELSE IF Head(u) = ":" THEN TRUE
    ELSE IF Head(u) \in Alpha \cup AsciiDigits \cup {"+", "-", "."}
      THEN SchemeScan(Tail(u))
    ELSE FALSE

\* has_explicit_scheme
HasExplicitScheme(u) == u # <<>> /\ Head(u) \in Alpha /\ SchemeScan(Tail(u))

UrlOk(u) == [ok |-> TRUE, err |-> "none", url |-> u]
UrlErr(e) == [ok |-> FALSE, err |-> e, url |-> <<>>]

\* normalize_navigation_url
NormalizeNavigationUrl(r) ==
    LET trimmed == Trim(r)
    IN  IF trimmed = <<>> THEN UrlErr("Other")
        ELSE IF StartsWith(trimmed, <<"/", "/">>)
          THEN UrlOk(Https \o SubSeq(trimmed, 3, Len(trimmed)))
        ELSE IF Contains(trimmed, <<":", "/", "/">>) THEN UrlOk(trimmed)
        ELSE IF IsHostPortWithOptionalPath(trimmed) THEN UrlOk(Https \o trimmed)
        ELSE IF HasExplicitScheme(trimmed) THEN UrlOk(trimmed)
        ELSE UrlOk(Https \o trimmed)

UrlInit ==
    /\ raw \in SeqsUpTo(MaxUrlLen)
    /\ normalized = NotCalled
    /\ NonUrlIdle

NormalizeCall ==
    /\ normalized = NotCalled
    /\ normalized' = NormalizeNavigationUrl(raw)
    /\ UNCHANGED raw
    /\ UNCHANGED nonUrlVars

UrlNext == NormalizeCall

SpecUrl == UrlInit /\ [][UrlNext]_vars

HttpsColon == <<"h", "t", "t", "p", "s", ":">>

\* The result the claim describes for a trimmed input s.
ClaimedUrl(s) ==
    IF s = <<>> THEN UrlErr("InvalidUrl")
    ELSE IF Contains(s, <<":", "/", "/">>) THEN UrlOk(s)
    ELSE IF StartsWith(s, <<"/", "/">>) THEN UrlOk(HttpsColon \o s)
    ELSE IF IsHostPortWithOptionalPath(s) THEN UrlOk(Https \o s)
    ELSE IF HasExplicitScheme(s) THEN UrlOk(s)
    ELSE UrlOk(Https \o s)

\* C23: normalize_navigation_url, on its input trimmed: verbatim if it
\* contains "://"; "https:" + s if it starts with "//"; "https://" + s for
\* host:port[/path] with an all-digit port; verbatim if it begins with a
\* scheme; "https://" + s in every other case; and the InvalidUrl error for
\* an empty or whitespace-only input.
C23_Normalize ==
    normalized # NotCalled => normalized = ClaimedUrl(Trim(raw))

\* What normalize_navigation_url computes: the error is Other, and the
\* "//" prefix is looked at before "://".
NormalizeAsCoded ==
    normalized # NotCalled
    => LET s == Trim(raw)
       IN  /\ (s = <<>>) = ~normalized.ok
           /\ ~normalized.ok => normalized.err = "Other"
           /\ (s # <<>> /\ StartsWith(s, <<"/", "/">>))
                => normalized = UrlOk(HttpsColon \o s)
           /\ (s # <<>> /\ ~StartsWith(s, <<"/", "/">>))
                => normalized = ClaimedUrl(s)

\* An input that starts with "//" and contains "://" came back rewritten.
ProtocolRelativeRewritten ==
    /\ normalized.ok
    /\ Contains(Trim(raw), <<":", "/", "/">>)
    /\ normalized.url # Trim(raw)

\* An empty input was refused with Other.
EmptyRefusedWithOther ==
    /\ normalized # NotCalled
    /\ Trim(raw) = <<>>
    /\ normalized.err = "Other"

(***************************************************************************)
(* Part 10. commands::browser::inspect                                     *)
(***************************************************************************)
Coords == (-1)..(MaxViewport + 1)
ViewportSizes == 1..MaxViewport

\* inspect: `x < 0.0 || x > vw as f64 || y < 0.0 || y > vh as f64`
OutsideViewport(pt, vp) ==
    pt.x < 0 \/ pt.x > vp.w \/ pt.y < 0 \/ pt.y > vp.h

InspectInit ==
    /\ point \in [x : Coords, y : Coords]
    /\ viewport \in [w : ViewportSizes, h : ViewportSizes]
    /\ backend_calls = <<>>
    /\ printed = "nothing"
    /\ inspected = "none"
    /\ NonInspectIdle

\* inspect(cli, backend, x, y, desc) with cli.json set.  viewportOk and
\* inspectOk are whether the backend calls succeeded, found is the "found"
\* field of backend.inspect's answer.
Inspect(viewportOk, inspectOk, found) ==
    /\ inspected = "none"
    /\ IF ~viewportOk
         THEN /\ backend_calls' = <<"viewport">>
              /\ printed' = printed
              /\ inspected' = "err"
       ELSE IF OutsideViewport(point, viewport)
         THEN /\ backend_calls' = <<"viewport">>
              /\ printed' = [success |-> FALSE, message |-> "outside viewport bounds"]
              /\ inspected' = "ok"
       ELSE IF ~inspectOk
         THEN /\ backend_calls' = <<"viewport", "inspect">>
              /\ printed' = printed
              /\ inspected' = "err"
       ELSE /\ backend_calls' = <<"viewport", "inspect">>
            /\ printed' = [success |-> TRUE, inspection |-> [found |-> found]]
            /\ inspected' = "ok"
    /\ UNCHANGED <<point, viewport>>
    /\ UNCHANGED nonInspectVars

InspectNext ==
    \E viewportOk \in BOOLEAN, inspectOk \in BOOLEAN, found \in BOOLEAN :
        Inspect(viewportOk, inspectOk, found)

SpecInspect == InspectInit /\ [][InspectNext]_vars

\* The request the claim is about: x < 0, y < 0, x beyond the width or y
\* beyond the height.
ClaimedOutside ==
    point.x < 0 \/ point.y < 0 \/ point.x > viewport.w \/ point.y > viewport.h

\* C24: inspect(x, y) outside the viewport returns a {found:false} result
\* without consulting the page: no backend call is made for such a request,
\* and backend.inspect in particular is never called.
C24_OutsideNoBackendCall ==
    (ClaimedOutside /\ inspected # "none")
    => /\ inspected = "ok"
       /\ printed = [found |-> FALSE]
       /\ backend_calls = <<>>

\* What inspect does for a point outside the viewport: backend.viewport()
\* is called, backend.inspect is not, and when the viewport call succeeds a
\* {success:false, message} object is printed and Ok(()) returned.
InspectOutsideAsCoded ==
    (ClaimedOutside /\ inspected # "none")
    => /\ backend_calls = <<"viewport">>
       /\ inspected = "ok"
            => printed = [success |-> FALSE, message |-> "outside viewport bounds"]

\* A request outside the viewport was answered after a backend call.
OutsideConsultedBackend ==
    /\ ClaimedOutside
    /\ inspected = "ok"
    /\ backend_calls # <<>>

\* A request outside the viewport failed because backend.viewport() failed.
OutsideFailedOnViewport ==
    /\ ClaimedOutside
    /\ inspected = "err"

(***************************************************************************)
(* Part 11. knowledge-builder-any: Crawler::fetch, the retry loop          *)
(*                                                                         *)
(* Durations are binary numerals (most significant bit first, no leading   *)
(* zero) counting a unit of the configuration's choosing, so that          *)
(* 2u32.saturating_pow keeps its 32 bits.                                  *)
(***************************************************************************)
PowWidth == 32                            \* bits of the u32 that 2u32.saturating_pow returns

Zeros(n) == [i \in 1..n |-> 0]
Ones(n) == [i \in 1..n |-> 1]
Pow2Bin(e) == <<1>> \o Zeros(e)           \* 2^e

RECURSIVE LexLeq(_, _)
LexLeq(a, b) ==
    IF a = <<>> THEN TRUE
    ELSE IF Head(a) # Head(b) THEN Head(a) < Head(b)
    ELSE LexLeq(Tail(a), Tail(b))

\* a <= b on numerals
BinLeq(a, b) == Len(a) < Len(b) \/ (Len(a) = Len(b) /\ LexLeq(a, b))

\* std::cmp::min
BinMin(a, b) == IF BinLeq(a, b) THEN a ELSE b

\* Duration * u32, for the base delays of the model, which are powers of two
MulPow2(d, n) == n \o Zeros(Len(d) - 1)

\* 2u32.saturating_pow(e): 2^e while it fits 32 bits, u32::MAX from there on
SaturatingPow2(e) == IF e < PowWidth THEN Pow2Bin(e) ELSE Ones(PowWidth)

\* fetch: min(retry_base_delay * 2u32.saturating_pow(attempt - 1), retry_max_delay)
BackoffDelay(cfg, a) ==
    BinMin(MulPow2(cfg.retry_base_delay, SaturatingPow2(a - 1)), cfg.retry_max_delay)

Statuses == {304, 404, 429, 503}
\* What fetch_once returns: Ok(html), FetchError from send() or text(),
\* HttpStatusError for a status that is not 2xx.
Responses ==
    {[kind |-> "Ok", status |-> 0], [kind |-> "FetchError", status |-> 0]}
    \cup [kind : {"HttpStatusError"}, status : Statuses]

\* fetch: `if (400..500).contains(status) && *status != 429 { return Err(e) }`
EndsFetch(e) ==
    e.kind = "HttpStatusError" /\ e.status >= 400 /\ e.status < 500 /\ e.status # 429

\* Variant: the loop stops one attempt early.
LastAttempt_Early(a, cfg) == a + 1 >= cfg.max_retries

\* `for attempt in 0..=self.config.max_retries`: the last value of the range
LastAttempt(a, cfg) == a = cfg.max_retries

BaseDelays == {<<1>>, <<1, 0>>}
MaxDelays == {<<1, 0, 1, 0>>, Pow2Bin(PowWidth + 1)}
RetryCounts == {0, 3, MaxRetries}

FetchInit ==
    /\ config \in [max_retries : RetryCounts, retry_base_delay : BaseDelays,
                   retry_max_delay : MaxDelays]
    /\ attempt = 0
    /\ last_error = NoError
    /\ response = NoError
    /\ request_count = 0
    /\ delay = NoDelay
    /\ sleeps = 0
    /\ returned = Running
    /\ NonFetchIdle

\* One iteration of the loop of fetch: the sleep (from the second attempt
\* on), fetch_once, whose answer is r, and the match on it; the return that
\* follows the loop belongs to the last iteration.
FetchAttempt(r) ==
    /\ returned.kind = "none"
    /\ attempt <= config.max_retries
    /\ IF attempt > 0
         THEN delay' = BackoffDelay(config, attempt) /\ sleeps' = sleeps + 1
         ELSE UNCHANGED <<delay, sleeps>>
    /\ request_count' = request_count + 1
    /\ response' = r
    /\ IF r.kind = "Ok"
         THEN /\ returned' = [Running EXCEPT !.kind = "Ok"]
              /\ UNCHANGED <<attempt, last_error>>
       ELSE /\ last_error' = r
            /\ IF EndsFetch(r)
                 THEN /\ returned' = [Running EXCEPT !.kind = r.kind, !.status = r.status]
                      /\ UNCHANGED attempt
               ELSE IF LastAttempt(attempt, config)
                 THEN /\ returned' = [kind |-> "RetryExhausted", status |-> 0,
                                     attempts |-> config.max_retries + 1,
                                     last_error |-> last_error']
                      /\ UNCHANGED attempt
               ELSE /\ attempt' = attempt + 1
                    /\ UNCHANGED returned
    /\ UNCHANGED config
    /\ UNCHANGED nonFetchVars

FetchNext == \E r \in Responses : FetchAttempt(r)

SpecFetch == FetchInit /\ [][FetchNext]_vars

\* Every fetch_once call returns, so the loop keeps stepping.
SpecFetchFair == SpecFetch /\ WF_vars(FetchNext)

\* The failures the claim has retried: a network error, 429, 5xx.
ClaimedRetryable(e) ==
    \/ e.kind = "FetchError"
    \/ e.kind = "HttpStatusError" /\ (e.status = 429 \/ (e.status >= 500 /\ e.status < 600))

AttemptFailed == request_count' = request_count + 1 /\ response'.kind # "Ok"

\* C26: a failed attempt is retried if and only if the failure is a network
\* error, an HTTP 429 or an HTTP 5xx (and a retry is left); any other 4xx
\* ends the fetch after that attempt, returning the status error.
C26_RetryPolicy ==
    [][AttemptFailed
       => /\ (ClaimedRetryable(response') /\ attempt < config.max_retries)
               => returned'.kind = "none"
          /\ returned'.kind = "none" => ClaimedRetryable(response')
          /\ EndsFetch(response')
               => (returned'.kind = "HttpStatusError" /\ returned'.status = response'.status)
      ]_vars

\* What fetch does: with a retry left, every failure is retried but an
\* HttpStatusError whose status is 4xx other than 429; a 3xx answer that
\* reqwest hands back (304, a redirect without Location) is retried too.
RetryPolicyAsCoded ==
    [][AttemptFailed
       => /\ returned'.kind = "none" <=> (~EndsFetch(response') /\ attempt < config.max_retries)
          /\ EndsFetch(response')
               => (returned'.kind = "HttpStatusError" /\ returned'.status = response'.status)
      ]_vars

\* fetch made every attempt it has on a URL that answers 304.
RetriedOn304 ==
    /\ returned.kind = "RetryExhausted"
    /\ request_count > 1
    /\ returned.last_error.status = 304

\* C27: fetch terminates after at most max_retries + 1 requests, returns
\* at the first successful attempt with no further request, and when every
\* attempt fails with a retryable error returns RetryExhausted with
\* attempts = max_retries + 1 and last_error = the error of the final
\* attempt.
C27_BoundedAttempts ==
    /\ [](request_count <= config.max_retries + 1)
    /\ <>(returned.kind # "none")
    /\ [][/\ returned.kind # "none" => request_count' = request_count
          /\ (request_count' = request_count + 1 /\ response'.kind = "Ok")
               => returned'.kind = "Ok"]_vars
    /\ []((request_count = config.max_retries + 1 /\ ClaimedRetryable(response))
            => returned.kind = "RetryExhausted")
    /\ [](returned.kind = "RetryExhausted"
            => /\ request_count = config.max_retries + 1
               /\ returned.attempts = config.max_retries + 1
               /\ returned.last_error = response)

\* With the defaults (3 retries), four requests that all got 503.
C27_Witness ==
    /\ config.max_retries = 3
    /\ request_count = 4
    /\ returned.kind = "RetryExhausted"
    /\ returned.attempts = 4
    /\ returned.last_error = [kind |-> "HttpStatusError", status |-> 503]

\* min(base * 2^(k-1), cap), the delay the claim gives the k-th retry
ClaimedDelay(cfg, k) ==
    BinMin(MulPow2(cfg.retry_base_delay, Pow2Bin(k - 1)), cfg.retry_max_delay)

\* C28: the delay slept before the k-th retry (k = 1 .. max_retries) is
\* min(base * 2^(k-1), cap); no delay precedes the first attempt.
C28_BackoffDelay ==
    /\ request_count = 1 => sleeps = 0
    /\ request_count >= 1 => sleeps = request_count - 1
    /\ sleeps >= 1 => delay = ClaimedDelay(config, sleeps)

\* What fetch sleeps: the claimed delay up to the 32nd retry; from the 33rd
\* on 2u32.saturating_pow has saturated and the delay is
\* min(base * (2^32 - 1), cap).  The delays never exceed the cap and never
\* decrease.
BackoffAsCoded ==
    /\ [](/\ request_count >= 1 => sleeps = request_count - 1
          /\ (sleeps >= 1 /\ sleeps <= PowWidth) => delay = ClaimedDelay(config, sleeps)
          /\ sleeps > PowWidth
               => delay = BinMin(MulPow2(config.retry_base_delay, Ones(PowWidth)),
                                 config.retry_max_delay)
          /\ sleeps >= 1 => BinLeq(delay, config.retry_max_delay))
    /\ [][sleeps >= 1 => BinLeq(delay, delay')]_vars

\* With base 1 and cap 10 the delays 1, 2, 4, 8, 10 have been slept.
DefaultDelaysCapped ==
    /\ config.retry_base_delay = <<1>>
    /\ config.retry_max_delay = <<1, 0, 1, 0>>
    /\ sleeps = 5
    /\ delay = <<1, 0, 1, 0>>

\* The 33rd retry slept less than min(base * 2^32, cap).
SaturatedDelaySlept ==
    /\ sleeps = PowWidth + 1
    /\ delay # ClaimedDelay(config, sleeps)

(***************************************************************************)
(* Part 12. browser::backend::SNAPSHOT_JS, the walk over the DOM           *)
(*                                                                         *)
(* A DOM node is [kind, depth]; what the walk looks at decides the kind:   *)
(*   "hidden"        an element in SKIP_TAGS or for which isHidden holds   *)
(*   "button"        an element with an interactive role                   *)
(*   "heading named" an element with a content role and a name             *)
(*   "heading"       an element with a content role and no name            *)
(*   "generic"       an element with role generic and no name              *)
(*   "#text"         a text node whose trimmed text is not empty           *)
(***************************************************************************)
DepthLimit == 15                          \* walk: `if (depth > 15) return null`
DomKinds == {"hidden", "button", "heading named", "heading", "generic", "#text"}

\* The depths the node after nd can have in document pre-order: a child of
\* nd, unless nd is a text node, or a later child of nd's parent or of one
\* of its ancestors below the top of the page.
NextDepths(nd, top) == (top + 1)..(IF nd.kind = "#text" THEN nd.depth ELSE nd.depth + 1)

\* A chain of k nested buttons, document.body the first.
Spine(k) == [i \in 1..k |-> [kind |-> "button", depth |-> i - 1]]
SpineLengths == {0, DepthLimit - 1}

\* const shouldRef = isInteractive || (isContent && name)
ShouldRef(el) == el.kind \in {"button", "heading named"}

\* role === 'generic' && !name && !ref
BareGeneric(el, ref) == el.kind = "generic" /\ ref = 0

\* Variant: an element without children is dropped whatever its role.
DropsEmpty_AnyRole(el, ref, n) == n = 0

\* walk: `if (role === 'generic' && !name && !ref && children.length === 0)
\* return null`
DropsEmpty(el, ref, n) == BareGeneric(el, ref) /\ n = 0

\* walk: `if (role === 'generic' && !name && !ref && children.length === 1)
\* return children[0]`
PassesThrough(el, ref, n) == BareGeneric(el, ref) /\ n = 1

\* The nodes of the returned children, one level below their parent.
RECURSIVE Nest(_)
Nest(kids) ==
    IF kids = <<>> THEN <<>>
    ELSE [j \in DOMAIN Head(kids) |-> [Head(kids)[j] EXCEPT !.depth = @ + 1]]
         \o Nest(Tail(kids))

NullNode(counter) == [null |-> TRUE, nodes |-> <<>>, refCounter |-> counter]

\* el.childNodes of node i, from node k on: the nodes one level below i
\* that precede the next node not below i
RECURSIVE ChildNodesFrom(_, _, _)
ChildNodesFrom(t, i, k) ==
    IF k > Len(t) \/ t[k].depth <= t[i].depth THEN <<>>
    ELSE (IF t[k].depth = t[i].depth + 1 THEN <<k>> ELSE <<>>)
         \o ChildNodesFrom(t, i, k + 1)

ChildNodes(t, i) == ChildNodesFrom(t, i, i + 1)

\* The value of a singleton.  The result of a recursive call is bound
\* through a singleton set so that the call is evaluated once.
TheOne(S) == CHOOSE x \in S : TRUE

RECURSIVE Walk(_, _, _, _)
RECURSIVE WalkChildren(_, _, _, _)
\* walk(el, depth) on node i with refCounter = counter: the node returned
\* (its nodes in pre-order, the root at depth 0) and refCounter afterwards
Walk(t, i, depth, counter) ==
    IF depth > DepthLimit THEN NullNode(counter)
    ELSE IF t[i].kind = "hidden" THEN NullNode(counter)
    ELSE LET c1 == IF ShouldRef(t[i]) THEN counter + 1 ELSE counter
             ref == IF ShouldRef(t[i]) THEN c1 ELSE 0
         IN  TheOne({
               IF PassesThrough(t[i], ref, Len(w.kids))
                 THEN [null |-> FALSE, nodes |-> w.kids[1], refCounter |-> w.refCounter]
               ELSE IF DropsEmpty(t[i], ref, Len(w.kids)) THEN NullNode(w.refCounter)
               ELSE [null |-> FALSE,
                     nodes |-> <<[role |-> t[i].kind, ref |-> ref, depth |-> 0,
                                  src |-> i]>> \o Nest(w.kids),
                     refCounter |-> w.refCounter]
               : w \in {WalkChildren(t, ChildNodes(t, i), depth, c1)}})

\* walk, `for (const child of el.childNodes)`: the children array
WalkChildren(t, cs, depth, counter) ==
    IF cs = <<>> THEN [kids |-> <<>>, refCounter |-> counter]
    ELSE IF t[Head(cs)].kind = "#text"
      THEN TheOne({
             [kids |-> <<<<[role |-> "text", ref |-> 0, depth |-> 0,
                            src |-> Head(cs)]>>>> \o rest.kids,
              refCounter |-> rest.refCounter]
             : rest \in {WalkChildren(t, Tail(cs), depth, counter)}})
    ELSE TheOne(UNION {
           {[kids |-> (IF c.null THEN <<>> ELSE <<c.nodes>>) \o rest.kids,
             refCounter |-> rest.refCounter]
            : rest \in {WalkChildren(t, Tail(cs), depth, c.refCounter)}}
           : c \in {Walk(t, Head(cs), depth + 1, counter)}})

\* The page before the script runs: document.body, or a chain of nested
\* elements with one more element at its end.
SnapInit ==
    /\ dom \in {Spine(k) \o <<[kind |-> kd, depth |-> k]>> :
                  k \in SpineLengths, kd \in DomKinds \ {"#text"}}
    /\ snapshot = NoSnapshot
    /\ NonSnapIdle

\* The page grows by one node, the last in document order, below the
\* element the page started with.
AppendNode(kd, d) ==
    /\ ~snapshot.done
    /\ \E k \in SpineLengths :
         /\ Len(dom) > k
         /\ Len(dom) < k + MaxDom
         /\ SubSeq(dom, 1, k) = Spine(k)
         /\ dom[k + 1].depth = k
         /\ d \in NextDepths(dom[Len(dom)], k)
    /\ dom' = Append(dom, [kind |-> kd, depth |-> d])
    /\ UNCHANGED snapshot
    /\ UNCHANGED nonSnapVars

\* `const tree = walk(document.body, 0); return { tree, refCount: refCounter }`
SnapshotScript ==
    /\ ~snapshot.done
    /\ LET w == Walk(dom, 1, 0, 0)
       IN  snapshot' = [done |-> TRUE, tree |-> w.nodes, refCount |-> w.refCounter]
    /\ UNCHANGED dom
    /\ UNCHANGED nonSnapVars

SnapNext ==
    \/ \E kd \in DomKinds, d \in 1..(DepthLimit + MaxDom) : AppendNode(kd, d)
    \/ SnapshotScript

SpecSnapshot == SnapInit /\ [][SnapNext]_vars

\* The nodes of the returned tree that carry a ref, in pre-order.
RefNodes == SelectSeq(snapshot.tree, LAMBDA nd : nd.ref # 0)

\* C29: refCount equals the number of nodes of the returned tree that carry
\* a ref, and those refs are exactly e1 .. e<refCount>, each once, numbered
\* in document pre-order, also when passthrough collapsing, hidden elements
\* or the depth limit remove nodes.
C29_RefsMatchCount ==
    snapshot.done
    => /\ Len(RefNodes) = snapshot.refCount
       /\ \A k \in DOMAIN RefNodes : RefNodes[k].ref = k
       /\ \A j, k \in DOMAIN RefNodes : j < k => RefNodes[j].src < RefNodes[k].src

\* A page deeper than the limit, with a hidden element and a collapsed
\* generic wrapper, whose snapshot carries refs.
C29_Witness ==
    /\ snapshot.done
    /\ snapshot.refCount > DepthLimit
    /\ \E i \in DOMAIN dom : dom[i].depth > DepthLimit
    /\ \E i \in DOMAIN dom : dom[i].kind = "hidden"
    /\ \E i \in DOMAIN dom :
         /\ dom[i].kind = "generic"
         /\ \A k \in DOMAIN snapshot.tree : snapshot.tree[k].src # i

(***************************************************************************)
(* Part 13. The session registry: SessionRecord files in the state         *)
(*          directory (spec.md 4.3)                                        *)
(*                                                                         *)
(* browser/session.rs is not part of the source tree at hand; its callers  *)
(* are (commands::browser::ensure_cdp_override and connect call            *)
(* save_external_session).  The registry is modelled from spec.md 3 and    *)
(* 4.3: one file sessions/<profile>.json per profile, written through a    *)
(* temporary file that is renamed over it.  The file system is modelled at *)
(* the level of directory entries and inodes: a write appends to one       *)
(* inode, a rename rebinds a name in one step, and a file that was opened  *)
(* stays readable under its inode whatever happens to its name.            *)
(***************************************************************************)
Ports == {"9222", "9333"}
Pids == {"4242"}
NoPid == "null"
NotTemp == "record"

\* A SessionRecord as it is serialised: profile_name, the endpoint
\* (cdp_port, from which cdp_ws_url follows) and pid, written in this order.
SessionRecord(p, port, pid) == <<p, port, pid>>
RecordLen == Len(SessionRecord(NotSet, NotSet, NoPid))

\* sessions/<profile>.json
RecordPath(p) == [profile |-> p, tmp |-> NotTemp]

\* Variant: the record file is opened and written in place.
TempPath_InPlace(w, p) == RecordPath(p)

\* The temporary file of one save call, next to the record file; no two
\* calls in flight share one.
TempPath(w, p) == [profile |-> p, tmp |-> w]

HasEntry(path) == \E e \in state_dir : e.name = path
InodeOf(path) == (CHOOSE e \in state_dir : e.name = path).inode

\* rename(from, to): `to` names the file `from` named, and `from` is gone;
\* the entry `to` had before, if any, is dropped in the same step.
Rename(entries, from, to) ==
    IF from = to THEN entries
    ELSE {e \in entries : e.name \notin {from, to}}
         \cup {[name |-> to, inode |-> e.inode] : e \in {x \in entries : x.name = from}}

SessionInit ==
    /\ SessionIdle
    /\ NonSessionIdle

\* A save call creates its file (truncating the one of that name, if any)
\* and has the serialised record still to write.
BeginSave(w, p, content) ==
    /\ writer[w].pc = "idle"
    /\ next_inode <= MaxSaves
    /\ LET path == TempPath(w, p)
       IN  IF HasEntry(path)
           THEN /\ files' = [files EXCEPT ![InodeOf(path)] = <<>>]
                /\ writer' = [writer EXCEPT ![w] =
                       [pc |-> "writing", path |-> path, inode |-> InodeOf(path),
                        content |-> content]]
                /\ UNCHANGED <<state_dir, next_inode>>
           ELSE /\ state_dir' = state_dir \cup {[name |-> path, inode |-> next_inode]}
                /\ next_inode' = next_inode + 1
                /\ writer' = [writer EXCEPT ![w] =
                       [pc |-> "writing", path |-> path, inode |-> next_inode,
                        content |-> content]]
                /\ UNCHANGED files
    /\ saved' = saved \cup {content}
    /\ UNCHANGED reader
    /\ UNCHANGED nonSessionVars

\* save_external(profile, port, ws_url): a user-provided endpoint, no pid.
SaveExternal(w, p, port) == BeginSave(w, p, SessionRecord(p, port, NoPid))

\* save_launched(profile, port, ws_url, pid)
SaveLaunched(w, p, port, pid) == BeginSave(w, p, SessionRecord(p, port, pid))

\* One write(2) of the save call: the next field reaches the file.
SaveWrite(w) ==
    /\ writer[w].pc = "writing"
    /\ Len(files[writer[w].inode]) < Len(writer[w].content)
    /\ LET i == writer[w].inode
           k == Len(files[i]) + 1
       IN  files' = [files EXCEPT ![i] = Append(@, writer[w].content[k])]
    /\ UNCHANGED <<state_dir, next_inode, writer, reader, saved>>
    /\ UNCHANGED nonSessionVars

\* The file is complete: it is renamed to sessions/<profile>.json and the
\* save call returns.
SaveRename(w) ==
    /\ writer[w].pc = "writing"
    /\ Len(files[writer[w].inode]) >= Len(writer[w].content)
    /\ state_dir' = Rename(state_dir, writer[w].path,
                           RecordPath(writer[w].path.profile))
    /\ writer' = [writer EXCEPT ![w] = WriterIdle]
    /\ UNCHANGED <<files, next_inode, reader, saved>>
    /\ UNCHANGED nonSessionVars

\* clear(profile): the record file is removed.
Clear(p) ==
    /\ HasEntry(RecordPath(p))
    /\ state_dir' = {e \in state_dir : e.name # RecordPath(p)}
    /\ UNCHANGED <<files, next_inode, writer, reader, saved>>
    /\ UNCHANGED nonSessionVars

\* A reader (get_status, or the load of a session) opens the record file of
\* a profile; NotRunning if there is none.
ReadOpen(r, p) ==
    /\ reader[r].pc = "idle"
    /\ reader' = [reader EXCEPT ![r] =
           IF HasEntry(RecordPath(p))
           THEN [pc |-> "open", profile |-> p, inode |-> InodeOf(RecordPath(p)),
                 found |-> TRUE, buf |-> <<>>]
           ELSE [pc |-> "done", profile |-> p, inode |-> NoInode,
                 found |-> FALSE, buf |-> <<>>]]
    /\ UNCHANGED <<state_dir, files, next_inode, writer, saved>>
    /\ UNCHANGED nonSessionVars

\* The reader reads the file it opened to its end.
ReadAll(r) ==
    /\ reader[r].pc = "open"
    /\ reader' = [reader EXCEPT ![r].pc = "done", ![r].buf = files[reader[r].inode]]
    /\ UNCHANGED <<state_dir, files, next_inode, writer, saved>>
    /\ UNCHANGED nonSessionVars

\* The reader is done with what it read.
ReadClose(r) ==
    /\ reader[r].pc = "done"
    /\ reader' = [reader EXCEPT ![r] = ReaderIdle]
    /\ UNCHANGED <<state_dir, files, next_inode, writer, saved>>
    /\ UNCHANGED nonSessionVars

SessionNext ==
    \/ \E w \in Writers, p \in ProfileNames, port \in Ports : SaveExternal(w, p, port)
    \/ \E w \in Writers, p \in ProfileNames, port \in Ports, pid \in Pids :
         SaveLaunched(w, p, port, pid)
    \/ \E w \in Writers : SaveWrite(w)
    \/ \E w \in Writers : SaveRename(w)
    \/ \E p \in ProfileNames : Clear(p)
    \/ \E r \in Readers, p \in ProfileNames : ReadOpen(r, p)
    \/ \E r \in Readers : ReadAll(r)
    \/ \E r \in Readers : ReadClose(r)

SpecSession == SessionInit /\ [][SessionNext]_vars

\* The records of a profile: the directory entries named after it.
RecordsOf(p) == {e \in state_dir : e.name = RecordPath(p)}

\* C30: a reader of a profile's record gets the whole content some save
\* call for that profile wrote, the old record or the new one, never a part
\* of one nor a mix of two, whatever writers and other readers do meanwhile;
\* and at every moment a profile name has at most one record.
C30_AtomicRecordWrite ==
    /\ \A r \in Readers :
         (reader[r].pc = "done" /\ reader[r].found)
         => /\ reader[r].buf \in saved
            /\ Len(reader[r].buf) = RecordLen
            /\ reader[r].buf[1] = reader[r].profile
    /\ \A p \in ProfileNames : Cardinality(RecordsOf(p)) <= 1

\* A reader has read the old record of a profile whole, and a save call has
\* replaced that record since the reader opened it.
C30_Witness ==
    \E r \in Readers :
        /\ reader[r].pc = "done"
        /\ reader[r].found
        /\ Len(reader[r].buf) = RecordLen
        /\ HasEntry(RecordPath(reader[r].profile))
        /\ InodeOf(RecordPath(reader[r].profile)) # reader[r].inode
        /\ files[InodeOf(RecordPath(reader[r].profile))] # reader[r].buf

(***************************************************************************)
(* Part 14. knowledge-builder-any: the worker loop (TaskRunner) over the   *)
(*          build_tasks table                                              *)
(*                                                                         *)
(* Every worker process runs one TaskRunner against the same database.     *)
(* Each SQL statement is its own transaction (the pool is used without an  *)
(* explicit transaction); a statement that locks rows and then updates     *)
(* them is two steps, so that statements of other workers run in between.  *)
(* Every statement can fail (the `?` after each await).                    *)
(***************************************************************************)
SourceId == 7                      \* the id ensure_source returned
ProcessResults == {"ok", "err", "timeout"}
Terminal == {"completed", "error"}

Pending(t) == tasks[t].stage = "init" /\ tasks[t].stage_status = "pending"

\* Variant: the CTE without FOR UPDATE SKIP LOCKED.
Claimable_IgnoringLocks(t) == Pending(t)

\* The rows the CTE of claim_next_pending_task can select: pending ones that
\* no other statement has locked (FOR UPDATE SKIP LOCKED).
Claimable(t) == Pending(t) /\ row_lock[t] = NoWorker

\* ORDER BY created_at ASC LIMIT 1; ids are in creation order.
NextTask ==
    IF \E t \in TaskIds : Claimable(t)
    THEN CHOOSE t \in TaskIds : Claimable(t) /\ \A u \in TaskIds : Claimable(u) => t <= u
    ELSE NoTask

WorkerInit ==
    /\ WorkerIdle
    /\ NonWorkerIdle

\* Another service inserts the next build task, stage init, status pending.
Enqueue ==
    /\ \E t \in TaskIds :
         /\ tasks[t] = NoRow
         /\ \A u \in 1..(t - 1) : tasks[u] # NoRow
         /\ tasks' = [tasks EXCEPT ![t] = [stage |-> "init", stage_status |-> "pending",
                                           source_id |-> NoSource, last_error |-> NotSet]]
    /\ UNCHANGED <<row_lock, runner, shutdown, claim_count>>
    /\ UNCHANGED nonWorkerVars

\* setup_signal_handler: Ctrl+C stores true in the runner's flag.
CtrlC(w) ==
    /\ ~shutdown[w]
    /\ shutdown' = [shutdown EXCEPT ![w] = TRUE]
    /\ UNCHANGED <<tasks, row_lock, runner, claim_count>>
    /\ UNCHANGED nonWorkerVars

\* run: the top of the loop.  With the flag set the loop breaks and run
\* returns Ok(()); otherwise process_one_task is called.
LoopTop(w) ==
    /\ runner[w].pc = "loop"
    /\ runner' = [runner EXCEPT ![w] =
           IF shutdown[w]
           THEN [@ EXCEPT !.pc = "stopped"]
           ELSE [pc |-> "claim", task |-> NoTask, result |-> "none", returned |-> "none"]]
    /\ UNCHANGED <<tasks, row_lock, shutdown, claim_count>>
    /\ UNCHANGED nonWorkerVars

\* claim_next_pending_task, the CTE: the oldest claimable row is locked.
\* With no such row the UPDATE matches nothing and process_one_task returns
\* Ok(false); a failed statement makes it return Err.
ClaimSelect(w, dbOk) ==
    /\ runner[w].pc = "claim"
    /\ IF ~dbOk
       THEN /\ runner' = [runner EXCEPT ![w].pc = "sleeping",
                                         ![w].returned = "Err(Database)"]
            /\ UNCHANGED row_lock
       ELSE IF NextTask = NoTask
       THEN /\ runner' = [runner EXCEPT ![w].pc = "sleeping", ![w].returned = "Ok(false)"]
            /\ UNCHANGED row_lock
       ELSE /\ runner' = [runner EXCEPT ![w].pc = "claim update", ![w].task = NextTask]
            /\ row_lock' = [row_lock EXCEPT ![NextTask] = w]
    /\ UNCHANGED <<tasks, shutdown, claim_count>>
    /\ UNCHANGED nonWorkerVars

\* claim_next_pending_task, the UPDATE ... RETURNING *: the locked row moves
\* to knowledge_build / running, the statement commits and returns the row.
ClaimUpdate(w) ==
    /\ runner[w].pc = "claim update"
    /\ LET t == runner[w].task
       IN  /\ tasks' = [tasks EXCEPT ![t].stage = "knowledge_build",
                                     ![t].stage_status = "running"]
           /\ row_lock' = [row_lock EXCEPT ![t] = NoWorker]
           /\ claim_count' = [claim_count EXCEPT ![t] = @ + 1]
    /\ runner' = [runner EXCEPT ![w].pc = "processing"]
    /\ UNCHANGED shutdown
    /\ UNCHANGED nonWorkerVars

\* timeout(task_timeout, processor.process(..)): Ok(Ok(source_id)),
\* Ok(Err(e)), or Err(Elapsed).
Process(w, r) ==
    /\ runner[w].pc = "processing"
    /\ runner' = [runner EXCEPT ![w].pc = "finishing", ![w].result = r]
    /\ UNCHANGED <<tasks, row_lock, shutdown, claim_count>>
    /\ UNCHANGED nonWorkerVars

\* The row after complete_task / error_task for the result r.
Finished(row, r) ==
    CASE r = "ok" -> [row EXCEPT !.stage_status = "completed", !.source_id = SourceId]
      [] r = "err" -> [row EXCEPT !.stage_status = "error", !.last_error = "process error"]
      [] OTHER -> [row EXCEPT !.stage_status = "error", !.last_error = "Task timeout"]

\* The match on the result: complete_task or error_task, each followed by
\* `?`, then Ok(true), or Err(TaskTimeout) after a timeout.
Finish(w, dbOk) ==
    /\ runner[w].pc = "finishing"
    /\ LET t == runner[w].task
           r == runner[w].result
       IN  IF dbOk
           THEN /\ tasks' = [tasks EXCEPT ![t] = Finished(tasks[t], r)]
                /\ runner' = [runner EXCEPT ![w] =
                       IF r = "timeout"
                       THEN [@ EXCEPT !.pc = "sleeping", !.returned = "Err(TaskTimeout)"]
                       ELSE [@ EXCEPT !.pc = "loop", !.returned = "Ok(true)"]]
           ELSE /\ runner' = [runner EXCEPT ![w].pc = "sleeping",
                                             ![w].returned = "Err(Database)"]
                /\ UNCHANGED tasks
    /\ UNCHANGED <<row_lock, shutdown, claim_count>>
    /\ UNCHANGED nonWorkerVars

\* sleep(poll_interval) after Ok(false), sleep(10 s) after Err: back to the
\* top of the loop.
Wake(w) ==
    /\ runner[w].pc = "sleeping"
    /\ runner' = [runner EXCEPT ![w].pc = "loop"]
    /\ UNCHANGED <<tasks, row_lock, shutdown, claim_count>>
    /\ UNCHANGED nonWorkerVars

RunnerStep(w) ==
    \/ LoopTop(w)
    \/ \E dbOk \in BOOLEAN : ClaimSelect(w, dbOk)
    \/ ClaimUpdate(w)
    \/ \E r \in ProcessResults : Process(w, r)
    \/ \E dbOk \in BOOLEAN : Finish(w, dbOk)
    \/ Wake(w)

WorkerNext ==
    \/ Enqueue
    \/ \E w \in Workers : CtrlC(w)
    \/ \E w \in Workers : LoopTop(w)
    \/ \E w \in Workers, dbOk \in BOOLEAN : ClaimSelect(w, dbOk)
    \/ \E w \in Workers : ClaimUpdate(w)
    \/ \E w \in Workers, r \in ProcessResults : Process(w, r)
    \/ \E w \in Workers, dbOk \in BOOLEAN : Finish(w, dbOk)
    \/ \E w \in Workers : Wake(w)

SpecWorker == WorkerInit /\ [][WorkerNext]_vars

\* Every runner keeps running: the database answers, sleeps end.
SpecWorkerFair == SpecWorker /\ \A w \in Workers : WF_vars(RunnerStep(w))

\* A step in which claim_next_pending_task returns to worker w.
ClaimReturns(w) == runner[w].pc \in {"claim", "claim update"} /\ runner'[w].pc # runner[w].pc

\* C31: with several workers claiming concurrently, each task is returned
\* to at most one of them and moves from (init, pending) to
\* (knowledge_build, running) once, in the step that returns it; and a
\* claim that runs without error returns None exactly when no pending task
\* is left unclaimed.
C31_ClaimedAtMostOnce ==
    /\ [](/\ \A t \in TaskIds : claim_count[t] <= 1
          /\ \A w, v \in Workers :
               (runner[w].task # NoTask /\ runner[w].task = runner[v].task) => w = v)
    /\ [][/\ \A t \in TaskIds :
               (Pending(t) /\ ~Pending(t)')
               => /\ tasks'[t].stage = "knowledge_build"
                  /\ tasks'[t].stage_status = "running"
                  /\ claim_count'[t] = claim_count[t] + 1
                  /\ \E w \in Workers : ClaimReturns(w) /\ runner[w].task = t
          /\ \A w \in Workers :
               (runner[w].pc = "claim" /\ ClaimReturns(w) /\ runner'[w].returned # "Err(Database)")
               => (runner'[w].returned = "Ok(false)"
                   <=> \A t \in TaskIds : ~(Pending(t) /\ row_lock[t] = NoWorker))]_vars

\* Two workers are inside claim_next_pending_task at once, each with a row
\* of its own locked.
C31_Witness ==
    \E w, v \in Workers :
        /\ w # v
        /\ runner[w].pc = "claim update"
        /\ runner[v].pc = "claim update"
        /\ runner[w].task # runner[v].task

(***************************************************************************)
(* Part 15. isolated_extension::is_isolated_chrome_running, and steps 4    *)
(*          and 5 of serve_isolated that use it                            *)
(*                                                                         *)
(* The profile directory and the CDP port belong to the machine, not to    *)
(* the caller: the lock file may be stale, and another program may listen  *)
(* on the port.  Both may change between the steps of the check.           *)
(***************************************************************************)
\* Who listens on 127.0.0.1:ISOLATED_CDP_PORT: nobody, the Chrome of the
\* isolated profile, another CDP server, a server that answers 404, or one
\* that does not answer within the 2 s timeout.
Listeners == {"closed", "isolated", "foreign", "foreign 404", "silent"}

\* .send().await.map(|r| r.status().is_success()).unwrap_or(false)
Answers2xx(l) == l \in {"isolated", "foreign"}

\* Variant: the port is probed whether or not the lock file exists.
ProbesPort_Always(lockExists) == TRUE

\* `if !lock_file.exists() { return false; }`: the probe is sent only with
\* the lock file in place.
ProbesPort(lockExists) == lockExists

AliveInit ==
    /\ AliveIdle
    /\ NonAliveIdle

\* The machine changes: Chrome of the isolated profile starts (it creates
\* the lock file) or dies (it may leave the lock file behind), another
\* program takes or leaves the port.
EnvChange(lockExists, l) ==
    /\ l = "isolated" => lockExists
    /\ <<lockExists, l>> # <<singleton_lock, cdp_listener>>
    /\ singleton_lock' = lockExists
    /\ cdp_listener' = l
    /\ UNCHANGED <<alive_pc, seen, version_probes, already_running, launch>>
    /\ UNCHANGED nonAliveVars

\* is_isolated_chrome_running, the lock file check.
CheckLock ==
    /\ alive_pc = "idle"
    /\ seen' = [lock |-> singleton_lock, answered |-> "not probed"]
    /\ version_probes' = 0
    /\ launch' = "none"
    /\ IF ProbesPort(singleton_lock)
       THEN alive_pc' = "probe" /\ already_running' = "none"
       ELSE alive_pc' = "done" /\ already_running' = "false"
    /\ UNCHANGED <<singleton_lock, cdp_listener>>
    /\ UNCHANGED nonAliveVars

\* is_isolated_chrome_running, GET /json/version with a 2 s timeout.
ProbeVersion ==
    /\ alive_pc = "probe"
    /\ seen' = [seen EXCEPT !.answered = cdp_listener]
    /\ version_probes' = version_probes + 1
    /\ already_running' = IF Answers2xx(cdp_listener) THEN "true" ELSE "false"
    /\ alive_pc' = "done"
    /\ UNCHANGED <<singleton_lock, cdp_listener, launch>>
    /\ UNCHANGED nonAliveVars

\* serve_isolated, step 5: Chrome is launched unless it is already running.
\* A launched Chrome holds the lock file and, if the port was free, the port.
LaunchUnlessRunning(launchOk) ==
    /\ alive_pc = "done"
    /\ alive_pc' = "idle"
    /\ IF already_running = "true"
       THEN /\ launch' = "reused"
            /\ UNCHANGED <<singleton_lock, cdp_listener>>
       ELSE IF launchOk
       THEN /\ launch' = "launched"
            /\ singleton_lock' = TRUE
            /\ cdp_listener' = IF cdp_listener = "closed" THEN "isolated" ELSE cdp_listener
       ELSE /\ launch' = "failed"
            /\ UNCHANGED <<singleton_lock, cdp_listener>>
    /\ UNCHANGED <<seen, version_probes, already_running>>
    /\ UNCHANGED nonAliveVars

AliveNext ==
    \/ \E lockExists \in BOOLEAN, l \in Listeners : EnvChange(lockExists, l)
    \/ CheckLock
    \/ ProbeVersion
    \/ \E launchOk \in BOOLEAN : LaunchUnlessRunning(launchOk)

SpecAlive == AliveInit /\ [][AliveNext]_vars

\* C33: is_isolated_chrome_running returns true exactly when it found the
\* SingletonLock file and GET /json/version answered 2xx; without the lock
\* file it returns false and sends no probe, so that a foreign CDP server
\* on the port is not taken for the isolated Chrome, and Chrome is launched.
C33_LockAndVersion ==
    /\ already_running # "none"
       => /\ already_running = "true"
             <=> (seen.lock /\ seen.answered \in {"isolated", "foreign"})
          /\ ~ seen.lock => (already_running = "false" /\ version_probes = 0)
          /\ version_probes <= 1
    /\ launch = "reused" => already_running = "true"
    /\ launch \in {"launched", "failed"} => already_running = "false"

\* With no lock file and a foreign CDP server answering on the port, the
\* check returned false without a probe and Chrome was launched.
C33_Witness ==
    /\ ~ seen.lock
    /\ cdp_listener = "foreign"
    /\ already_running = "false"
    /\ version_probes = 0
    /\ launch = "launched"

\* process_one_task has returned to worker w after claiming a task.
ReturnedWithTask(w) ==
    runner[w].pc \in {"loop", "sleeping", "stopped"} /\ runner[w].task # NoTask

\* The row of a task is what the result r of its processing calls for.
Settled(t, r) ==
    IF r = "ok"
    THEN tasks[t].stage_status = "completed" /\ tasks[t].source_id # NoSource
    ELSE tasks[t].stage_status = "error" /\ tasks[t].last_error # NotSet

\* C36: when process_one_task returns, the task it claimed is no longer
\* running: it is completed with its source_id if processing succeeded, and
\* in error with last_error set if processing failed or timed out.
C36_ClaimedTaskSettled ==
    \A w \in Workers :
        ReturnedWithTask(w)
        => /\ tasks[runner[w].task].stage_status # "running"
           /\ Settled(runner[w].task, runner[w].result)

\* What process_one_task does guarantee: the task is settled whenever
\* complete_task or error_task itself succeeded, that is, unless
\* process_one_task returns the database's error.
SettledUnlessDatabaseError ==
    \A w \in Workers :
        (ReturnedWithTask(w) /\ runner[w].returned # "Err(Database)")
        => Settled(runner[w].task, runner[w].result)

\* A worker's run has ended and the task it claimed is still running: no
\* statement of the worker will touch it again.
LeftRunning ==
    \E w \in Workers :
        /\ runner[w].pc = "stopped"
        /\ runner[w].task # NoTask
        /\ tasks[runner[w].task].stage_status = "running"

\* Worker w is inside process_one_task with a claimed task.
Processing(w) == runner[w].pc \in {"processing", "finishing"}

\* A runner that has observed the flag makes no further step: it claims
\* nothing and touches no row.
StoppedForGood ==
    [][\A w \in Workers : runner[w].pc = "stopped" => runner'[w] = runner[w]]_vars

\* C39: once the shutdown flag is set, run() returns Ok; it claims no task
\* after it has observed the flag; and the task it was processing when the
\* flag was set reaches completed or error.
C39_GracefulShutdown ==
    /\ \A w \in Workers : shutdown[w] ~> (runner[w].pc = "stopped")
    /\ StoppedForGood
    /\ \A w \in Workers : \A t \in TaskIds :
         (shutdown[w] /\ Processing(w) /\ runner[w].task = t)
         ~> (tasks[t].stage_status \in Terminal)

\* What run() does guarantee: it returns Ok once the flag is set, claims
\* nothing after it has observed the flag, and never leaves process_one_task
\* half way: the task in hand gets its complete_task or error_task call.
ShutdownAsCoded ==
    /\ \A w \in Workers : shutdown[w] ~> (runner[w].pc = "stopped")
    /\ StoppedForGood
    /\ [][\A w \in Workers :
            (Processing(w) /\ runner'[w].pc # runner[w].pc)
            => runner'[w].pc \in {"finishing", "loop", "sleeping"}]_vars
    /\ \A w \in Workers : \A t \in TaskIds :
         (shutdown[w] /\ Processing(w) /\ runner[w].task = t)
         ~> (runner[w].returned # "none" /\ runner[w].task = t)

\* run() has returned after process_one_task settled the task in hand.
ShutdownWhileProcessing ==
    \E w \in Workers :
        /\ runner[w].pc = "stopped"
        /\ runner[w].task # NoTask
        /\ runner[w].returned = "Ok(true)"
        /\ tasks[runner[w].task].stage_status \in Terminal

(***************************************************************************)
(* Part 16. knowledge-builder-any: TaskProcessor::process over the tables  *)
(*          sources, source_versions, documents and chunks                 *)
(*                                                                         *)
(* Every statement is awaited on the pool by itself, outside any           *)
(* transaction, so the statements of two workers interleave freely.  All   *)
(* tasks are for one site: their URLs give the same base_url.  A handbook  *)
(* document is the sequence of its paragraphs; the chunker turns each      *)
(* paragraph into one chunk.  No statement of the module names a           *)
(* constraint (there is no ON CONFLICT), and the tables are modelled with  *)
(* none.                                                                   *)
(***************************************************************************)
Contents == {<<>>, <<"a">>, <<"a", "b">>}
DocNames == {"action.md", "overview.md"}

\* DocumentChunker::chunk: the chunks of a document, chunk_index from 0.
Chunk(content) ==
    [i \in 1..Len(content) |-> [chunk_index |-> i - 1, content |-> content[i]]]

\* The NewChunk rows chunk_and_embed builds for one document.
NewChunks(document_id, source_version_id, content) ==
    [i \in 1..Len(content) |->
        [document_id |-> document_id, source_version_id |-> source_version_id,
         chunk_index |-> Chunk(content)[i].chunk_index,
         content |-> Chunk(content)[i].content]]

\* SELECT COALESCE(MAX(version_number), 0) + 1 ... WHERE source_id = $1
NextVersionNumber(source_id) ==
    LET numbers == {source_versions[i].version_number :
                       i \in {j \in DOMAIN source_versions :
                                 source_versions[j].source_id = source_id}}
    IN  IF numbers = {} THEN 1
        ELSE (CHOOSE n \in numbers : \A m \in numbers : m <= n) + 1

\* SELECT * FROM documents WHERE source_id = $1 AND url_hash = $2: the ids
\* of the matching rows.  The url_hash is that of "<url>#handbook-<name>".
DocumentsByUrlHash(source_id, doc) ==
    {i \in DOMAIN documents :
        documents[i].source_id = source_id /\ documents[i].doc = doc}

\* DELETE FROM chunks WHERE document_id = $1
DeleteChunksByDocument(rows, document_id) ==
    LET Keep(r) == r.document_id # document_id
    IN  SelectSeq(rows, Keep)

ContentOf(w, doc) ==
    IF doc = "action.md" THEN processor[w].action_md ELSE processor[w].overview_md

ProcInit == ProcIdle /\ NonProcIdle

\* process, step 1: build_handbook_simple(url) returns the two documents.
BuildHandbook(w, action_md, overview_md) ==
    /\ processor[w].pc = "idle"
    /\ builds < MaxBuilds
    /\ builds' = builds + 1
    /\ processor' = [processor EXCEPT ![w] =
            [ProcessorIdle EXCEPT !.pc = "get_source",
                                  !.action_md = action_md,
                                  !.overview_md = overview_md]]
    /\ alone' = (alone /\ \A v \in Workers : processor[v].pc = "idle")
    /\ UNCHANGED <<sources, source_versions, documents, chunks>>
    /\ UNCHANGED nonProcVars

\* ensure_source: get_source_by_url; fetch_optional yields one matching row.
GetSourceByUrl(w) ==
    /\ processor[w].pc = "get_source"
    /\ IF sources > 0
         THEN \E id \in 1..sources :
                 processor' = [processor EXCEPT ![w].source_id = id,
                                                ![w].pc = "next_version"]
         ELSE processor' = [processor EXCEPT ![w].pc = "create_source"]
    /\ UNCHANGED <<sources, source_versions, documents, chunks, builds, alone>>
    /\ UNCHANGED nonProcVars

\* ensure_source: create_source, INSERT ... RETURNING id.
CreateSource(w) ==
    /\ processor[w].pc = "create_source"
    /\ sources' = sources + 1
    /\ processor' = [processor EXCEPT ![w].source_id = sources + 1,
                                      ![w].pc = "next_version"]
    /\ UNCHANGED <<source_versions, documents, chunks, builds, alone>>
    /\ UNCHANGED nonProcVars

\* create_version, first statement: read the next version number.
SelectNextVersion(w) ==
    /\ processor[w].pc = "next_version"
    /\ processor' = [processor EXCEPT
            ![w].next_version = NextVersionNumber(processor[w].source_id),
            ![w].pc = "insert_version"]
    /\ UNCHANGED <<sources, source_versions, documents, chunks, builds, alone>>
    /\ UNCHANGED nonProcVars

\* create_version, second statement: INSERT the row with the number read.
InsertVersion(w) ==
    /\ processor[w].pc = "insert_version"
    /\ source_versions' = Append(source_versions,
            [source_id |-> processor[w].source_id,
             version_number |-> processor[w].next_version])
    /\ processor' = [processor EXCEPT
            ![w].version_id = Len(source_versions) + 1,
            ![w].doc = "action.md",
            ![w].pc = "get_document"]
    /\ UNCHANGED <<sources, documents, chunks, builds, alone>>
    /\ UNCHANGED nonProcVars

\* store_document: get_document_by_url_hash.
GetDocumentByUrlHash(w) ==
    /\ processor[w].pc = "get_document"
    /\ LET found == DocumentsByUrlHash(processor[w].source_id, processor[w].doc)
       IN  IF found = {}
             THEN processor' = [processor EXCEPT ![w].existing = NoDoc,
                                                 ![w].pc = "store_document"]
             ELSE \E id \in found :
                     processor' = [processor EXCEPT ![w].existing = id,
                                                    ![w].pc = "store_document"]
    /\ UNCHANGED <<sources, source_versions, documents, chunks, builds, alone>>
    /\ UNCHANGED nonProcVars

\* store_document, after the lookup: an existing document whose
\* content_hash differs is updated and its chunks are deleted, an existing
\* document with the same content_hash is left as it is, and a document not
\* found is inserted.  Steps 4 and 5 of process call it for action.md and
\* then for overview.md.  Equal content_hash is taken as equal content.
StoreDocument(w) ==
    /\ processor[w].pc = "store_document"
    /\ LET me == processor[w]
           content == ContentOf(w, me.doc)
           id == IF me.existing # NoDoc THEN me.existing ELSE Len(documents) + 1
       IN  /\ IF me.existing # NoDoc
                THEN IF documents[me.existing].content # content
                       THEN /\ documents' =
                                 [documents EXCEPT ![me.existing].content = content]
                            /\ chunks' = DeleteChunksByDocument(chunks, me.existing)
                       ELSE UNCHANGED <<documents, chunks>>
                ELSE /\ documents' = Append(documents,
                            [source_id |-> me.source_id, doc |-> me.doc,
                             content |-> content])
                     /\ UNCHANGED chunks
           /\ IF me.doc = "action.md"
                THEN processor' = [processor EXCEPT ![w].action_doc_id = id,
                                                    ![w].existing = NoDoc,
                                                    ![w].doc = "overview.md",
                                                    ![w].pc = "get_document"]
                ELSE processor' = [processor EXCEPT ![w].overview_doc_id = id,
                                                    ![w].existing = NoDoc,
                                                    ![w].doc = "action.md",
                                                    ![w].pc = "chunk_and_embed"]
    /\ UNCHANGED <<sources, source_versions, builds, alone>>
    /\ UNCHANGED nonProcVars

\* chunk_and_embed: nothing for a document without chunks, else insert_chunks
\* with one INSERT per chunk.  Step 6 of process calls it for action.md and
\* then for overview.md.
ChunkAndEmbed(w) ==
    /\ processor[w].pc = "chunk_and_embed"
    /\ LET me == processor[w]
           content == ContentOf(w, me.doc)
           id == IF me.doc = "action.md" THEN me.action_doc_id
                 ELSE me.overview_doc_id
       IN  /\ IF Chunk(content) = <<>>
                THEN UNCHANGED chunks
                ELSE chunks' = chunks \o NewChunks(id, me.version_id, content)
           /\ IF me.doc = "action.md"
                THEN processor' = [processor EXCEPT ![w].doc = "overview.md"]
                ELSE processor' = [processor EXCEPT ![w].doc = "none",
                                                    ![w].pc = "update_last_crawled"]
    /\ UNCHANGED <<sources, source_versions, documents, builds, alone>>
    /\ UNCHANGED nonProcVars

\* process, step 7 and the return of Ok(source_id).
UpdateLastCrawled(w) ==
    /\ processor[w].pc = "update_last_crawled"
    /\ processor' = [processor EXCEPT ![w].pc = "idle", ![w].returned = "Ok"]
    /\ UNCHANGED <<sources, source_versions, documents, chunks, builds, alone>>
    /\ UNCHANGED nonProcVars

\* Any awaited statement of process may fail; the ? returns the error and
\* what was written so far stays.
ProcessFails(w) ==
    /\ processor[w].pc # "idle"
    /\ processor' = [processor EXCEPT ![w].pc = "idle", ![w].returned = "Err"]
    /\ alone' = FALSE
    /\ UNCHANGED <<sources, source_versions, documents, chunks, builds>>
    /\ UNCHANGED nonProcVars

ProcNext ==
    \/ \E w \in Workers, action_md \in Contents, overview_md \in Contents :
          BuildHandbook(w, action_md, overview_md)
    \/ \E w \in Workers : GetSourceByUrl(w)
    \/ \E w \in Workers : CreateSource(w)
    \/ \E w \in Workers : SelectNextVersion(w)
    \/ \E w \in Workers : InsertVersion(w)
    \/ \E w \in Workers : GetDocumentByUrlHash(w)
    \/ \E w \in Workers : StoreDocument(w)
    \/ \E w \in Workers : ChunkAndEmbed(w)
    \/ \E w \in Workers : UpdateLastCrawled(w)
    \/ \E w \in Workers : ProcessFails(w)

SpecProcessor == ProcInit /\ [][ProcNext]_vars

VersionNumbersOf(source_id) ==
    LET OfSource(r) == r.source_id = source_id
        rows == SelectSeq(source_versions, OfSource)
    IN  [i \in DOMAIN rows |-> rows[i].version_number]

\* C37: the version numbers create_version has assigned for one source are
\* 1, 2, 3, ... in the order the versions were created, hence pairwise
\* distinct, also with two workers processing tasks of that source.
C37_VersionNumbersInOrder ==
    \A source_id \in 1..sources :
        \A i \in DOMAIN VersionNumbersOf(source_id) :
            VersionNumbersOf(source_id)[i] = i

\* The numbers are in order as long as no two process calls overlapped.
VersionNumbersInOrderWhenAlone == alone => C37_VersionNumbersInOrder

\* Two versions of one source carry the same number.
SameVersionNumberTwice ==
    \E i, j \in DOMAIN source_versions :
        /\ i < j
        /\ source_versions[i].source_id = source_versions[j].source_id
        /\ source_versions[i].version_number = source_versions[j].version_number

ChunksOf(document_id) ==
    LET OfDocument(r) == r.document_id = document_id
        rows == SelectSeq(chunks, OfDocument)
    IN  [i \in DOMAIN rows |->
            [chunk_index |-> rows[i].chunk_index, content |-> rows[i].content]]

AllReturned == \A w \in Workers : processor[w].pc = "idle"

\* C38: once process has completed, every stored document has exactly the
\* chunks of its current content, each chunk_index once; also when the URL
\* was processed before, with the same content or with other content.  The
\* process calls considered ran one after the other and all returned Ok.
C38_OneChunkSetPerDocument ==
    (alone /\ AllReturned)
        => \A id \in DOMAIN documents : ChunksOf(id) = Chunk(documents[id].content)

\* The first process call of a site leaves each document with its chunks.
OneChunkSetAfterFirstBuild ==
    (alone /\ AllReturned /\ builds = 1)
        => \A id \in DOMAIN documents : ChunksOf(id) = Chunk(documents[id].content)

\* A site was processed twice, one call after the other, both Ok.
ProcessedTwice == alone /\ AllReturned /\ builds = 2

====
